---------------------------- MODULE Spec2Model ----------------------------
(***************************************************************************)
(* money-explained: the balloon particle simulation (src/src/App.tsx,      *)
(* useBalloonSim / VelocityBalloon3D) and the UI store (store/useUI.ts).   *)
(*                                                                         *)
(* JavaScript numbers are modelled as fixed-point integers with Scale      *)
(* units per 1.0, together with the three non-finite values NaN, PInf and  *)
(* NInf.  A finite result whose magnitude exceeds FloatMax overflows to    *)
(* an infinity, as a double does beyond Number.MAX_VALUE.  Vectors are     *)
(* triples <<x, y, z>> of such numbers.                                    *)
(***************************************************************************)
EXTENDS Integers, Sequences, FiniteSets, TLC

\* ------------------------------------------------------------------------
\* Numbers
\* ------------------------------------------------------------------------

\* fixed-point units per 1.0 (1e-4 resolution, so that the 1e-4 wall nudge
\* of the integrator is one unit)
Scale == 10^4

\* largest finite magnitude of the number model
FloatMax == 10^9

PInf == FloatMax + 1
NInf == 0 - (FloatMax + 1)
NaN  == FloatMax + 2

IsNaN(x) == x = NaN
\* Number.isFinite
IsFinite(x) == x >= 0 - FloatMax /\ x <= FloatMax

Abs(x) == IF x < 0 THEN 0 - x ELSE x
Sgn(x) == IF x < 0 THEN 0 - 1 ELSE IF x > 0 THEN 1 ELSE 0

\* a raw integer result (within 32 bits) saturated to the infinities
Sat(x) == IF x > FloatMax THEN PInf ELSE IF x < 0 - FloatMax THEN NInf ELSE x

fNeg(a) == IF IsNaN(a) THEN NaN ELSE 0 - a

fAdd(a, b) ==
  IF IsNaN(a) \/ IsNaN(b) THEN NaN
  ELSE IF a = PInf THEN (IF b = NInf THEN NaN ELSE PInf)
  ELSE IF a = NInf THEN (IF b = PInf THEN NaN ELSE NInf)
  ELSE IF b = PInf \/ b = NInf THEN b
  ELSE Sat(a + b)

fSub(a, b) == fAdd(a, fNeg(b))

\* round(a * b / Scale) for finite a, b >= 0, saturating at PInf; the product
\* is formed from the halves of a and b so that no intermediate exceeds 32
\* bits: a = ah * Scale + al, b = bh * Scale + bl
MulParts(ah, al, bh, bl) ==
  IF ah # 0 /\ bh > (FloatMax \div Scale) \div ah THEN PInf
  ELSE Sat(Sat(ah * bh * Scale + ah * bl)
           + (al * bh + (al * bl + Scale \div 2) \div Scale))

MulAbs(a, b) == MulParts(a \div Scale, a % Scale, b \div Scale, b % Scale)

fMul(a, b) ==
  IF IsNaN(a) \/ IsNaN(b) THEN NaN
  ELSE IF ~IsFinite(a) \/ ~IsFinite(b)
       THEN (IF a = 0 \/ b = 0 THEN NaN
             ELSE IF (a > 0) = (b > 0) THEN PInf ELSE NInf)
  ELSE Sgn(a) * Sgn(b) * MulAbs(Abs(a), Abs(b))

RECURSIVE LongDiv(_, _, _, _)
\* acc followed by the next n decimal digits of r / b (0 <= r < b <= 2e8),
\* rounded to nearest at the last digit
LongDiv(r, b, n, acc) ==
  IF n = 0 THEN acc + (IF 2 * r >= b THEN 1 ELSE 0)
  ELSE LongDiv((r * 10) % b, b, n - 1, acc * 10 + (r * 10) \div b)

\* round(a * Scale / b) for finite a >= 0, b > 0, saturating at PInf
DivAbs(a, b) ==
  IF a \div b > FloatMax \div Scale THEN PInf
  ELSE IF b > 2 * 10^8 THEN Sat((a \div b) * Scale + (a % b) \div (b \div Scale))
  ELSE Sat(LongDiv(a % b, b, 4, a \div b))

fDiv(a, b) ==
  IF IsNaN(a) \/ IsNaN(b) THEN NaN
  ELSE IF ~IsFinite(a) THEN (IF ~IsFinite(b) THEN NaN
                             ELSE IF (a > 0) = (b >= 0) THEN PInf ELSE NInf)
  ELSE IF ~IsFinite(b) THEN 0
  ELSE IF b = 0 THEN (IF a = 0 THEN NaN ELSE IF a > 0 THEN PInf ELSE NInf)
  ELSE Sgn(a) * Sgn(b) * DivAbs(Abs(a), Abs(b))

\* Math.max / Math.min: NaN if either argument is NaN
fMax(a, b) == IF IsNaN(a) \/ IsNaN(b) THEN NaN ELSE IF a >= b THEN a ELSE b
fMin(a, b) == IF IsNaN(a) \/ IsNaN(b) THEN NaN ELSE IF a <= b THEN a ELSE b

\* comparisons: false whenever an operand is NaN
fGt(a, b) == ~IsNaN(a) /\ ~IsNaN(b) /\ a > b
fGe(a, b) == ~IsNaN(a) /\ ~IsNaN(b) /\ a >= b

\* a || b on numbers: a unless a is 0 or NaN
OrElse(a, b) == IF a = 0 \/ IsNaN(a) THEN b ELSE a

RECURSIVE IsqrtIn(_, _, _)
IsqrtIn(n, lo, hi) ==
  IF lo >= hi THEN lo
  ELSE LET mid == (lo + hi + 1) \div 2
       IN  IF mid * mid <= n THEN IsqrtIn(n, mid, hi) ELSE IsqrtIn(n, lo, mid - 1)

\* floor of the square root of an integer 0 <= n < 2^31
Isqrt(n) == IsqrtIn(n, 0, 46340)

\* Math.sqrt
fSqrt(x) ==
  IF IsNaN(x) \/ x < 0 THEN NaN
  ELSE IF x = PInf THEN PInf
  ELSE IF x <= 2 * 10^5 THEN Isqrt(x * Scale)
  ELSE IF x <= 2 * 10^7 THEN Isqrt(x * 100) * 10
  ELSE Isqrt(x) * 100

\* r^3 in fixed point
Cube(r) == fMul(fMul(r, r), r)

RECURSIVE CbrtIn(_, _, _)
CbrtIn(x, lo, hi) ==
  IF lo >= hi THEN lo
  ELSE LET mid == (lo + hi + 1) \div 2
       IN  IF Cube(mid) <= x THEN CbrtIn(x, mid, hi) ELSE CbrtIn(x, lo, mid - 1)

RECURSIVE CbrtSmallIn(_, _, _)
CbrtSmallIn(x, lo, hi) ==
  IF lo >= hi THEN lo
  ELSE LET mid == (lo + hi + 1) \div 2
       IN  IF mid * mid * mid <= x * 10^8 THEN CbrtSmallIn(x, mid, hi)
           ELSE CbrtSmallIn(x, lo, mid - 1)

\* cube root of a finite x >= 0 (exact integer search below 0.0021)
CbrtAbs(x) == IF x <= 21 THEN CbrtSmallIn(x, 0, 1290) ELSE CbrtIn(x, 0, 5 * 10^5)

\* Math.cbrt
fCbrt(x) ==
  IF IsNaN(x) THEN NaN
  ELSE IF ~IsFinite(x) THEN x
  ELSE IF x < 0 THEN 0 - CbrtAbs(0 - x)
  ELSE CbrtAbs(x)

\* THREE.MathUtils.clamp(value, min, max) = Math.max(min, Math.min(max, value))
Clamp(value, min, max) == fMax(min, fMin(max, value))

\* THREE.MathUtils.lerp(x, y, t) = (1 - t) * x + t * y
Lerp(x, y, t) == fAdd(fMul(fSub(Scale, t), x), fMul(t, y))

\* ------------------------------------------------------------------------
\* THREE.Vector3
\* ------------------------------------------------------------------------

Zero3 == <<0, 0, 0>>

vAdd(a, b) == <<fAdd(a[1], b[1]), fAdd(a[2], b[2]), fAdd(a[3], b[3])>>
vSub(a, b) == <<fSub(a[1], b[1]), fSub(a[2], b[2]), fSub(a[3], b[3])>>
\* multiplyScalar
vScale(a, k) == <<fMul(a[1], k), fMul(a[2], k), fMul(a[3], k)>>
\* addScaledVector(b, k): this += b * k
vAddScaled(a, b, k) == vAdd(a, vScale(b, k))
vDot(a, b) == fAdd(fAdd(fMul(a[1], b[1]), fMul(a[2], b[2])), fMul(a[3], b[3]))
vLengthSq(a) == vDot(a, a)
vLength(a) == fSqrt(vLengthSq(a))
vDivScalar(a, len) == <<fDiv(a[1], len), fDiv(a[2], len), fDiv(a[3], len)>>
\* normalize(): divideScalar(length() || 1)
vNormalize(a) == vDivScalar(a, OrElse(vLength(a), Scale))

\* ------------------------------------------------------------------------
\* Random draws.  Math.random() and the values derived from it are inputs:
\* a draw source d = [g |-> seed of sampleGaussian's stream, u |-> seed of
\* every other use of Math.random()] and the k-th value of each stream is
\* read from a small table.
\* ------------------------------------------------------------------------

\* the seeds of each stream
Seeds == {1, 2}

\* the largest |z| of the tables
ZMax == 2 * Scale

\* standard normal values z of sampleGaussian, per seed (never exactly 0)
ZTable == << <<5000, 0 - 12000, 10000, 0 - 3000, 15000, 0 - 7000, 20000,
               0 - 5000, 2000, 0 - 15000, 8000, 0 - 1000>>,
             <<0 - 8000, 3000, 0 - 20000, 12000, 0 - 2000, 6000, 0 - 10000,
               15000, 0 - 4000, 1000, 0 - 13000, 9000>>,
             <<10000, 0 - 10000, 4000, 0 - 6000, 18000, 0 - 9000, 1000,
               0 - 16000, 7000, 0 - 2000, 11000, 0 - 5000>> >>

\* values of Math.random() in [0, 1), per seed
UTable == << <<9999, 5000, 200, 9990, 1250, 7500, 3000>>,
             <<1250, 9999, 5000, 600, 9900, 200, 7500>>,
             <<5000, 300, 9999, 7500, 100, 1250, 9990>> >>

\* unit directions: the values of Vector3.randomDirection() and of the
\* spherical angles (theta, phi) that the model draws
Dirs == << <<Scale, 0, 0>>, <<0, Scale, 0>>, <<0, 0, Scale>>,
           <<0 - Scale, 0, 0>>, <<0, 0 - Scale, 0>>, <<0, 0, 0 - Scale>>,
           <<6000, 8000, 0>>, <<0, 0 - 6000, 8000>> >>

DTable == << <<1, 7, 4, 3, 5, 6, 2>>,
             <<2, 5, 8, 6, 3, 4, 1>>,
             <<3, 1, 5, 7, 6, 4, 8>> >>

At(tab, seed, k) == tab[((seed - 1) % Len(tab)) + 1][(k % Len(tab[1])) + 1]

\* the standard normal value z = sqrt(-2 ln u) cos(2 pi v) of the k-th call
GaussZ(d, k) == At(ZTable, d.g, k)
\* the k-th value of Math.random()
Rand(d, k) == At(UTable, d.u, k)
\* the k-th random unit direction
RandDir(d, k) == Dirs[At(DTable, d.u, k)]

\* sampleGaussian(mean, stdDev) = mean + z * stdDev
sampleGaussian(mean, stdDev, d, k) == fAdd(mean, fMul(GaussZ(d, k), stdDev))

\* Math.sqrt(3)
Sqrt3 == 17320

\* ------------------------------------------------------------------------
\* initParticles
\* ------------------------------------------------------------------------

\* number of iterations of "for (let i = 0; i < n; i++)" for a number n
\* (for n = Infinity the render has thrown before the loop is reached)
LoopCount(n) ==
  IF IsNaN(n) \/ n <= 0 THEN 0 ELSE (n + Scale - 1) \div Scale

\* the i-th particle (i = 0, 1, ...) created by initParticles without prev:
\* a point at distance radius * cbrt(random) and three gaussian components
NewParticle(i, radius, std, d) ==
      [position |-> vScale(RandDir(d, i), fMul(radius, fCbrt(Rand(d, i)))),
       velocity |-> <<sampleGaussian(0, std, d, 3 * i),
                      sampleGaussian(0, std, d, 3 * i + 1),
                      sampleGaussian(0, std, d, 3 * i + 2)>>]

RECURSIVE SpawnFrom(_, _, _, _, _)
\* the particles i, i + 1, ..., n - 1 pushed by the loop of initParticles
SpawnFrom(i, n, radius, std, d) ==
  IF i >= n THEN <<>>
  ELSE <<NewParticle(i, radius, std, d)>> \o SpawnFrom(i + 1, n, radius, std, d)

\* initParticles(n, radius, temperature, mass) (prev is never passed)
\* vRms = sqrt(3 k T / max(0.0001, mass)), std = vRms / sqrt(3)
initParticles(n, radius, temperature, mass, d) ==
  SpawnFrom(0, LoopCount(n), radius,
            fDiv(fSqrt(fDiv(fMul(3 * Scale, temperature), fMax(1, mass))), Sqrt3), d)

\* ------------------------------------------------------------------------
\* useBalloonSim: constants of the integrator
\* ------------------------------------------------------------------------

dtBase == 80                  \* 0.008
minR == 8000                  \* 0.8
maxR == 32000                 \* 3.2
radiusLerp == 1200            \* 0.12
growBoostUp == 14000          \* 1.4
thermostatBlend == 600        \* 0.06
noiseFrac == 200              \* 0.02 (noiseSigma = stdTarget * 0.02)
jitterFrac == 400             \* 0.04 (jitter = 0.04 * vRmsTarget)
wallEps == 1                  \* 1e-4
aSupply == 100                \* 0.010
bVelocity == 500              \* 0.050
baseVolume == 6000            \* 0.6
gAccel == 98000               \* 9.8
PI == 31416                   \* Math.PI
\* 1e-6, 1e-8: below the resolution of the number model, they round to 0
stdFloor == 0
tinySq == 0

\* g = gravity ? (0, -9.8, 0) : (0, 0, 0)
GravityVec(gravity) == IF gravity THEN <<0, 0 - gAccel, 0>> ELSE Zero3

\* vRmsTarget = sqrt(3 * k * temperature / 1)
VRmsTarget(temperature) == fSqrt(fDiv(fMul(3 * Scale, temperature), Scale))

\* a thermostat whose ratio is inverted: it pushes speeds away from the target
ThermostatScaleInverted(currentStd, stdTarget) ==
  fAdd(Scale - thermostatBlend,
       fMul(thermostatBlend, fDiv(fMax(stdFloor, currentStd), stdTarget)))

\* scale = (1 - blend) + blend * (stdTarget / max(1e-6, currentStd))
ThermostatScale(currentStd, stdTarget) ==
  fAdd(Scale - thermostatBlend,
       fMul(thermostatBlend, fDiv(stdTarget, fMax(stdFloor, currentStd))))

\* "if (Number.isFinite(scale) && scale > 0) p.velocity.multiplyScalar(scale)"
ScaleIfOk(velocity, scale) ==
  IF IsFinite(scale) /\ scale > 0 THEN vScale(velocity, scale) ELSE velocity

\* the velocity after the thermostat scaling
Thermostat(velocity, stdTarget) ==
  ScaleIfOk(velocity, ThermostatScale(fDiv(vLength(velocity), Sqrt3), stdTarget))

\* vT.sub(vN) with vT = velocity - vN: the velocity minus twice vN
Reflect(velocity, vN) == vSub(vSub(velocity, vN), vN)

\* tangent = rand - n * (rand . n)
Tangent(rand, n) == vSub(rand, vScale(n, vDot(rand, n)))

\* "if (tangent.lengthSq() > 1e-8) { tangent.normalize(); addScaledVector }"
AddJitter(v1, tangent, amount) ==
  IF fGt(vLengthSq(tangent), tinySq)
  THEN vAddScaled(v1, vNormalize(tangent), amount)
  ELSE v1

\* the collision once n holds the pushed-in position: n.multiplyScalar(R -
\* 1e-4) scaled n in place, so the n of the reflection and of the tangent is
\* that scaled vector, as in the source
CollideAt(n, velocity, vRmsTarget, d, k) ==
  [position |-> n,
   velocity |-> AddJitter(Reflect(velocity, vScale(n, vDot(velocity, n))),
                          Tangent(RandDir(d, k), n),
                          fMul(fSub(Rand(d, k), Scale \div 2),
                               fMul(jitterFrac, vRmsTarget)))]

\* the body of "if (r >= R)": position and velocity after the wall collision
Collide(position, velocity, R, vRmsTarget, d, k) ==
  CollideAt(vScale(vNormalize(position), fSub(R, wallEps)), velocity, vRmsTarget, d, k)

\* a clamp that lets every component through
SanitizeNot(a) == a

\* "if (!Number.isFinite(c)) c = 0" on each component
Sanitize(a) == <<IF IsFinite(a[1]) THEN a[1] ELSE 0,
                 IF IsFinite(a[2]) THEN a[2] ELSE 0,
                 IF IsFinite(a[3]) THEN a[3] ELSE 0>>

\* noise on each component, then gravity: the velocity that is integrated
Kick(v1, noiseSigma, gravity, dt, d, k) ==
  vAddScaled(<<fAdd(v1[1], sampleGaussian(0, noiseSigma, d, k)),
               fAdd(v1[2], sampleGaussian(0, noiseSigma, d, k + 1)),
               fAdd(v1[3], sampleGaussian(0, noiseSigma, d, k + 2))>>,
             GravityVec(gravity), dt)

\* the particle at x1 with velocity v3 after the boundary test and the NaN
\* clamp; hit is r >= R
Bounce(x1, v3, hit, R, vRmsTarget, d, k) ==
  IF hit
  THEN [position |-> Sanitize(Collide(x1, v3, R, vRmsTarget, d, k).position),
        velocity |-> Sanitize(Collide(x1, v3, R, vRmsTarget, d, k).velocity),
        hit |-> TRUE]
  ELSE [position |-> Sanitize(x1), velocity |-> Sanitize(v3), hit |-> FALSE]

\* position integration and collision for the kicked velocity v3
Integrate(position, v3, R, vRmsTarget, dt, d, k) ==
  Bounce(vAddScaled(position, v3, dt), v3,
         fGe(vLength(vAddScaled(position, v3, dt)), R), R, vRmsTarget, d, k)

\* one iteration of step's loop over the particles: particle p (index i) after
\* thermostat, noise, gravity, integration, collision and the NaN clamp
StepParticle(p, i, R, vRmsTarget, gravity, dt, d, k) ==
  Integrate(p.position,
            Kick(Thermostat(p.velocity, fDiv(vRmsTarget, Sqrt3)),
                 fMul(fDiv(vRmsTarget, Sqrt3), noiseFrac), gravity, dt, d, k + 3 * i),
            R, vRmsTarget, dt, d, k + i)

RECURSIVE MoveFrom(_, _, _, _, _, _, _, _)
\* the loop of step over the particles i, i + 1, ... of parts
MoveFrom(i, parts, R, vRmsTarget, gravity, dt, d, k) ==
  IF i > Len(parts) THEN <<>>
  ELSE <<StepParticle(parts[i], i - 1, R, vRmsTarget, gravity, dt, d, k)>>
       \o MoveFrom(i + 1, parts, R, vRmsTarget, gravity, dt, d, k)

RECURSIVE SpeedsOf(_)
\* speedsLocal: the length of each velocity
SpeedsOf(moved) ==
  IF moved = <<>> THEN <<>>
  ELSE <<vLength(Head(moved).velocity)>> \o SpeedsOf(Tail(moved))

RECURSIVE SafeSpeeds(_)
\* .map(v => Number.isFinite(v) ? v : 0)
SafeSpeeds(sp) ==
  IF sp = <<>> THEN <<>>
  ELSE <<IF IsFinite(Head(sp)) THEN Head(sp) ELSE 0>> \o SafeSpeeds(Tail(sp))

RECURSIVE PartsOf(_)
PartsOf(moved) ==
  IF moved = <<>> THEN <<>>
  ELSE <<[position |-> Head(moved).position, velocity |-> Head(moved).velocity]>>
       \o PartsOf(Tail(moved))

RECURSIVE SumSq(_)
SumSq(sp) == IF sp = <<>> THEN 0 ELSE fAdd(fMul(Head(sp), Head(sp)), SumSq(Tail(sp)))

\* meanV2Local
MeanV2(speedsLocal) ==
  IF Len(speedsLocal) # 0 THEN fDiv(SumSq(speedsLocal), Len(speedsLocal) * Scale) ELSE 0

\* a mean square speed used as measured, without the fallback
FiniteMeanV2Raw(meanV2Local, vRmsTarget) == meanV2Local

\* finiteMeanV2: the thermal fallback vRmsTarget^2 for a degenerate mean
FiniteMeanV2(meanV2Local, vRmsTarget) ==
  IF IsFinite(meanV2Local) /\ fGt(meanV2Local, tinySq) THEN meanV2Local
  ELSE fMul(vRmsTarget, vRmsTarget)

\* a target volume from which the velocity term is subtracted
TargetVolumeMinus(count, finiteMeanV2) ==
  fSub(fAdd(baseVolume, fMul(aSupply, fMax(Scale, count * Scale))),
       fMul(bVelocity, finiteMeanV2))

\* targetVolume = baseVolume + aSupply * max(1, count) + bVelocity * meanV2
TargetVolume(count, finiteMeanV2) ==
  fAdd(fAdd(baseVolume, fMul(aSupply, fMax(Scale, count * Scale))),
       fMul(bVelocity, finiteMeanV2))

\* targetRadius: cbrt(max(0, 3 V / (4 pi))) clamped to [minR, maxR]
TargetRadius(count, finiteMeanV2) ==
  Clamp(fCbrt(fMax(0, fDiv(fMul(3 * Scale, TargetVolume(count, finiteMeanV2)),
                           fMul(4 * Scale, PI)))),
        minR, maxR)

\* the target radius step derives from the particle count and the measured
\* mean square speed
DerivedRadius(count, meanV2Local, vRmsTarget) ==
  TargetRadius(count, FiniteMeanV2(meanV2Local, vRmsTarget))

\* a growBoost without the bias toward growth
GrowBoostFlat(R, targetRadius) == Scale

\* growBoost = targetRadius > R ? 1.4 : 1.0
GrowBoost(R, targetRadius) == IF fGt(targetRadius, R) THEN growBoostUp ELSE Scale

\* the radius written to st.radius at the end of step
EaseRadius(R, targetRadius) ==
  Lerp(R, targetRadius, fMin(Scale, fMul(radiusLerp, GrowBoost(R, targetRadius))))

\* the end of step, once the loop has produced moved and speedsLocal
StepResult(s, moved, speedsLocal, vRmsTarget) ==
  [parts |-> PartsOf(moved),
   radius |-> EaseRadius(s.radius,
                DerivedRadius(Len(s.parts), MeanV2(speedsLocal), vRmsTarget)),
   temperature |-> s.temperature,
   speeds |-> SafeSpeeds(IF Len(speedsLocal) # 0 THEN speedsLocal ELSE <<vRmsTarget>>),
   hits |-> {i \in 1..Len(moved) : moved[i].hit},
   before |-> s.radius]

StepMoved(s, moved, vRmsTarget) == StepResult(s, moved, SpeedsOf(moved), vRmsTarget)

StepWith(s, vRmsTarget, gravity, dt, d, k) ==
  StepMoved(s, MoveFrom(1, s.parts, s.radius, vRmsTarget, gravity, dt, d, k), vRmsTarget)

\* step(dt) on s = [parts, radius, temperature]: the new state, the speeds
\* handed to setSpeeds, and which particles hit the wall
Step(s, gravity, dt, d, k) == StepWith(s, VRmsTarget(s.temperature), gravity, dt, d, k)


\* ------------------------------------------------------------------------
\* State
\* ------------------------------------------------------------------------

VARIABLES
  store,    \* useUI's balloon object
  phase,    \* "unmounted", "mounted", or "failed" (a render or effect threw)
  st,       \* stateRef.current of useBalloonSim: [parts, radius, temperature]
  speeds,   \* the speeds state of useBalloonSim
  edits,    \* number of store writes made by the controls so far
  ticks,    \* number of frames run so far
  lastOp,   \* the operation that produced this state, and what it did
  probe     \* the inputs and outputs of a function applied on its own

vars == <<store, phase, st, speeds, edits, ticks, lastOp, probe>>

\* bounds of the model
MaxEdits == 1
MaxTicks == 1

\* the store's initial balloon (useUI.ts); the model runs the default of 400
\* particles scaled down to DefaultParticles
DefaultParticles == 2
DefaultTemperature == 300
DefaultRadius == 14000

InitBalloon ==
  [particles |-> DefaultParticles * Scale, mass |-> Scale,
   temperature |-> DefaultTemperature * Scale, radius |-> DefaultRadius,
   gravity |-> FALSE, paused |-> FALSE]

\* the range sliders: particles min..max (scaled down), temperature 50..1500
UIParticles == {1 * Scale, 2 * Scale, 3 * Scale}
UITemperatures == {50 * Scale, 1500 * Scale}

NoSt == [parts |-> <<>>, radius |-> DefaultRadius, temperature |-> Scale]
NoOp == [op |-> "init", effect |-> FALSE, hits |-> {}, steps |-> 0]
NoProbe == [kind |-> "none"]

\* the draw sources an operation may see
Draws == {[g |-> s, u |-> s] : s \in Seeds}

\* the frames: alpha = delta / 0.016 (a short frame, a 16 ms frame) and the
\* draws made during the frame
Frames == {[alpha |-> 6000, d |-> [g |-> 1, u |-> 1]],
           [alpha |-> Scale, d |-> [g |-> 2, u |-> 2]]}

\* the page before VelocityBalloon3D is first mounted
Idle ==
  /\ store = InitBalloon
  /\ phase = "unmounted"
  /\ st = NoSt
  /\ speeds = <<>>
  /\ edits = 0
  /\ ticks = 0
  /\ lastOp = NoOp

Init == Idle /\ probe = NoProbe

\* ------------------------------------------------------------------------
\* useBalloonSim: render and the parameter-change effect
\* ------------------------------------------------------------------------

\* whether "new Array(len)" and "array.length = len" accept the number len
\* (otherwise: RangeError, invalid array length)
ArrayLengthOk(len) == IsFinite(len) /\ len >= 0 /\ len % Scale = 0

\* the argument of "new Array(Math.max(1, particles))", evaluated by every
\* render
SpeedsInitLen(particles) == fMax(Scale, particles)

\* safeTemp = Math.max(1, temperature || 300)
SafeTemp(temperature) == fMax(Scale, OrElse(temperature, DefaultTemperature * Scale))

\* the upper clamp of the radius a parameter change may set
maxParamR == 22000

\* a safeRadius that is not clamped
SafeRadiusRaw(radius, current) == OrElse(OrElse(radius, current), Scale)

\* safeRadius = clamp(radius || st.radius || 1, 0.8, 2.2)
SafeRadius(radius, current) == Clamp(OrElse(OrElse(radius, current), Scale), minR, maxParamR)

\* "if (rlen > st.radius) p.position.multiplyScalar(st.radius / rlen)"
PullInside(p, rlen, radius) ==
  IF fGt(rlen, radius)
  THEN [p EXCEPT !.position = vScale(p.position, fDiv(radius, rlen))]
  ELSE p

\* the added particle, pulled back onto the sphere when it lies outside
ClampInside(p, radius) == PullInside(p, vLength(p.position), radius)

RECURSIVE ClampAll(_, _)
\* "for (const p of added)": every added particle clamped inside
ClampAll(added, radius) ==
  IF added = <<>> THEN <<>>
  ELSE <<ClampInside(Head(added), radius)>> \o ClampAll(Tail(added), radius)

\* the added particles put in front of the old ones (unshift)
PushAddedFront(parts, toAdd, radius, safeTemp, d) ==
  ClampAll(initParticles(toAdd, radius, safeTemp, Scale, d), radius) \o parts

\* st.parts.push(...added)
PushAdded(parts, toAdd, radius, safeTemp, d) ==
  parts \o ClampAll(initParticles(toAdd, radius, safeTemp, Scale, d), radius)

\* a truncation that keeps one particle too many
TruncateOffByOne(parts, particles) == SubSeq(parts, 1, particles \div Scale + 1)

\* st.parts.length = particles
Truncate(parts, particles) == SubSeq(parts, 1, particles \div Scale)

\* the new parts after the "change in count" block of the effect, for a
\* count the block accepts
ResizeParts(parts, particles, radius, safeTemp, d) ==
  IF particles = Len(parts) * Scale THEN parts
  ELSE IF fGt(particles, Len(parts) * Scale)
       THEN PushAdded(parts, fSub(particles, Len(parts) * Scale), radius, safeTemp, d)
       ELSE Truncate(parts, particles)

\* whether the effect throws (or never returns) for this count
EffectFails(parts, particles) ==
  /\ particles # Len(parts) * Scale
  /\ IF fGt(particles, Len(parts) * Scale) THEN particles = PInf
     ELSE ~ArrayLengthOk(particles)

\* the effect on [particles, radius, temperature]: the new stateRef.current
Effect(s, props, d) ==
  [parts |-> ResizeParts(s.parts, props.particles, s.radius,
                         SafeTemp(props.temperature), d),
   radius |-> SafeRadius(props.radius, s.radius),
   temperature |-> SafeTemp(props.temperature)]

\* the first render's stateRef value
InitialSt(props, d) ==
  [parts |-> initParticles(props.particles, props.radius, props.temperature, Scale, d),
   radius |-> fMax(minR, fMin(maxParamR, OrElse(props.radius, Scale))),
   temperature |-> SafeTemp(props.temperature)]

RECURSIVE Zeros(_)
\* new Array(n).fill(0)
Zeros(n) == IF n <= 0 THEN <<>> ELSE <<0>> \o Zeros(n - 1)

\* a render or an effect throws: React unmounts the tree
Fail(op) ==
  /\ phase' = "failed"
  /\ lastOp' = [NoOp EXCEPT !.op = op]
  /\ UNCHANGED <<st, speeds>>

\* VelocityBalloon3D mounts: first render, then the effect's first run
Mount ==
  /\ phase = "unmounted"
  /\ UNCHANGED <<store, edits, ticks, probe>>
  /\ \E d \in Draws :
       IF ~ArrayLengthOk(SpeedsInitLen(store.particles))
       THEN Fail("mount")
       ELSE \E s0 \in {InitialSt(store, d)} :
                IF EffectFails(s0.parts, store.particles)
                THEN Fail("mount")
                ELSE /\ phase' = "mounted"
                     /\ st' = Effect(s0, store, d)
                     /\ speeds' = Zeros(SpeedsInitLen(store.particles) \div Scale)
                     /\ lastOp' = [NoOp EXCEPT !.op = "mount", !.effect = TRUE]

\* the store becomes s1 and notifies React, which re-renders the component
\* before the next handler or frame callback runs; the effect runs when one
\* of its dependencies [particles, radius, temperature] changed
Commit(s1, op, d) ==
  /\ store' = s1
  /\ IF ~ArrayLengthOk(SpeedsInitLen(s1.particles))
     THEN Fail(op)
     ELSE IF <<s1.particles, s1.radius, s1.temperature>>
               = <<store.particles, store.radius, store.temperature>>
          THEN /\ lastOp' = [NoOp EXCEPT !.op = op]
               /\ UNCHANGED <<phase, st, speeds>>
          ELSE IF EffectFails(st.parts, s1.particles)
               THEN Fail(op)
               ELSE /\ st' = Effect(st, s1, d)
                    /\ lastOp' = [NoOp EXCEPT !.op = op, !.effect = TRUE]
                    /\ UNCHANGED <<phase, speeds>>

\* the visualization is torn down (route change); the store outlives it
Unmount ==
  /\ phase = "mounted"
  /\ phase' = "unmounted"
  /\ st' = NoSt
  /\ speeds' = <<>>
  /\ lastOp' = [NoOp EXCEPT !.op = "unmount"]
  /\ UNCHANGED <<store, edits, ticks, probe>>

\* ------------------------------------------------------------------------
\* The store and the controls
\* ------------------------------------------------------------------------

\* a setter that builds the record from the initial balloon, not the current
setBalloonReplace(s, k, v) == [InitBalloon EXCEPT ![k] = v]

\* setBalloon(k, v)
setBalloon(s, k, v) == [s EXCEPT ![k] = v]

\* a write of the store while the page is shown
Edit(k, v) ==
  /\ phase = "mounted"
  /\ edits < MaxEdits
  /\ store[k] # v
  /\ edits' = edits + 1
  /\ UNCHANGED <<ticks, probe>>
  /\ \E d \in Draws : Commit(setBalloon(store, k, v), "edit", d)

\* the controls of the page
EditUI ==
  \/ \E v \in UIParticles : Edit("particles", v)
  \/ \E v \in UITemperatures : Edit("temperature", v)
  \/ Edit("gravity", ~store.gravity)
  \/ Edit("paused", ~store.paused)

\* the per-frame sync callback: write the sim radius back to the store
Sync ==
  /\ phase = "mounted"
  /\ IsFinite(st.radius)
  /\ store.radius # st.radius
  /\ UNCHANGED <<edits, ticks, probe>>
  /\ \E d \in Draws : Commit(setBalloon(store, "radius", st.radius), "sync", d)

\* ------------------------------------------------------------------------
\* tick
\* ------------------------------------------------------------------------

\* steps = Math.max(1, Math.floor(2 * alpha))
StepCount(alpha) == fMax(Scale, ((2 * alpha) \div Scale) * Scale) \div Scale

\* the state step leaves in stateRef.current
StOf(r) == [parts |-> r.parts, radius |-> r.radius, temperature |-> r.temperature]

\* the last step's result carrying the hits of the earlier steps too
JoinHits(r, rest) == [rest EXCEPT !.hits = r.hits \cup rest.hits]

RECURSIVE StepN(_, _, _, _, _)
RECURSIVE StepMore(_, _, _, _, _)
\* "for (s = 0; s < steps; s++) step(dtBase * speedScale)" for n >= 1 steps
\* (speedScale, the store's animationSpeed, is 1)
StepN(s, gravity, d, n, k) == StepMore(Step(s, gravity, fMul(dtBase, Scale), d, k),
                                       gravity, d, n - 1, k)

StepMore(r, gravity, d, n, k) ==
  IF n = 0 THEN r ELSE JoinHits(r, StepN(r, gravity, d, n, k + 5))

\* a tick that ignores the paused flag
TickSkipsNever(paused) == FALSE

\* "if (paused) return;"
TickSkips(paused) == paused

\* a frame: ParticlesMesh's useFrame calls sim.tick(delta / 0.016)
Tick ==
  /\ phase = "mounted"
  /\ ticks < MaxTicks
  /\ ticks' = ticks + 1
  /\ UNCHANGED <<store, phase, edits, probe>>
  /\ IF TickSkips(store.paused)
     THEN /\ lastOp' = [NoOp EXCEPT !.op = "tick"]
          /\ UNCHANGED <<st, speeds>>
     ELSE \E f \in Frames :
            \E r \in {StepN(st, store.gravity, f.d, StepCount(f.alpha), ticks)} :
                /\ st' = StOf(r)
                /\ speeds' = r.speeds
                /\ lastOp' = [NoOp EXCEPT !.op = "tick", !.hits = r.hits,
                                          !.steps = StepCount(f.alpha)]

Next == Mount \/ Unmount \/ EditUI \/ Sync \/ Tick

\* the page driven through its controls
Spec == Init /\ [][Next]_vars

\* values a caller of setBalloon may write: zero, negative, fractional and
\* non-finite numbers
AnyParticles == {0, 0 - Scale, Scale \div 2, NaN}
AnyTemperatures == {0 - Scale, NaN, PInf}
AnyRadii == {0 - Scale, NaN, PInf}

\* setBalloon called with any number
EditAny ==
  \/ \E v \in AnyParticles : Edit("particles", v)
  \/ \E v \in AnyTemperatures : Edit("temperature", v)
  \/ \E v \in AnyRadii : Edit("radius", v)

NextAny == Mount \/ Unmount \/ EditAny \/ Sync \/ Tick

\* the page with a store that is written with any number
SpecAny == Init /\ [][NextAny]_vars

TypeOK ==
  /\ phase \in {"unmounted", "mounted", "failed"}
  /\ IsFinite(st.radius)

\* ------------------------------------------------------------------------
\* The collision on its own: a particle that has moved to or past the wall
\* ------------------------------------------------------------------------

CollideRadii == {minR, Scale + wallEps, DefaultRadius, maxParamR, maxR}
CollideDirs == {<<Scale, 0, 0>>, <<0, 0 - Scale, 0>>, <<6000, 0, 8000>>}
CollideVelocities ==
  {<<100000, 0, 0>>, <<0, 0 - 50000, 20000>>, <<30000, 40000, 0>>, <<20000, 0 - 10000, 150000>>}
CollideTemperatures == {50 * Scale, 300 * Scale}

CollideInputs ==
  {[kind |-> "collide", R |-> R, position |-> vScale(n, fAdd(R, 100)),
    velocity |-> v, vRmsTarget |-> VRmsTarget(T), d |-> d, done |-> FALSE,
    out |-> Zero3] :
     R \in CollideRadii, n \in CollideDirs, v \in CollideVelocities,
     T \in CollideTemperatures, d \in Draws}

InitCollide == Idle /\ probe \in CollideInputs

\* the "if (r >= R)" block runs on the particle
ApplyCollide ==
  /\ probe.kind = "collide"
  /\ ~probe.done
  /\ probe' = [probe EXCEPT
                 !.done = TRUE,
                 !.out = Collide(probe.position, probe.velocity, probe.R,
                                 probe.vRmsTarget, probe.d, 0).velocity]
  /\ UNCHANGED <<store, phase, st, speeds, edits, ticks, lastOp>>

SpecCollide == InitCollide /\ [][ApplyCollide]_vars

\* ------------------------------------------------------------------------
\* The derived radius on its own
\* ------------------------------------------------------------------------

\* the largest particle count of the comparison
MaxCount == 3
RadiusCounts == 0..MaxCount \cup {50, 400, 4000}
RadiusMeans == {0, 1, Scale, 150 * Scale, 900 * Scale, 4500 * Scale, PInf, NaN}
RadiusTemperatures == {Scale, 50 * Scale, 300 * Scale, 1500 * Scale}

RadiusInputs ==
  {[kind |-> "radius", count |-> c[1], count2 |-> c[2], mean |-> m[1], mean2 |-> m[2],
    temperature |-> T, vRmsTarget |-> VRmsTarget(T), done |-> FALSE, r |-> 0, r2 |-> 0] :
     c \in {c \in RadiusCounts \X RadiusCounts : c[1] <= c[2]},
     m \in {m \in RadiusMeans \X RadiusMeans : m[1] <= m[2]},
     T \in RadiusTemperatures}

InitRadius == Idle /\ probe \in RadiusInputs

\* step derives the target radius for both pairs (count, mean square speed)
ApplyRadius ==
  /\ probe.kind = "radius"
  /\ ~probe.done
  /\ probe' = [probe EXCEPT
                 !.done = TRUE,
                 !.r = DerivedRadius(probe.count, probe.mean, probe.vRmsTarget),
                 !.r2 = DerivedRadius(probe.count2, probe.mean2, probe.vRmsTarget)]
  /\ UNCHANGED <<store, phase, st, speeds, edits, ticks, lastOp>>

SpecRadius == InitRadius /\ [][ApplyRadius]_vars

\* ------------------------------------------------------------------------
\* Two runs of the integrator side by side
\* ------------------------------------------------------------------------

MaxTwinSteps == 2

\* two runs that start from the same particles, with the same parameters and
\* the same Gaussian stream g; ua and ub are the streams of the runs' other
\* uses of Math.random()
TwinInputs ==
  {[kind |-> "twin", a |-> InitialSt(b, [g |-> g, u |-> u0]),
    b |-> InitialSt(b, [g |-> g, u |-> u0]),
    gravity |-> b.gravity, g |-> g, ua |-> ua, ub |-> ub, n |-> 0] :
     b \in {[InitBalloon EXCEPT !.particles = n, !.temperature = T, !.gravity = gr] :
              n \in UIParticles, T \in UITemperatures \cup {DefaultTemperature * Scale},
              gr \in BOOLEAN},
     g \in Seeds, u0 \in Seeds, ua \in Seeds, ub \in Seeds}

InitTwin == Idle /\ probe \in TwinInputs

\* both runs take one step
TwinStep ==
  /\ probe.kind = "twin"
  /\ probe.n < MaxTwinSteps
  /\ probe' = [probe EXCEPT
                 !.n = probe.n + 1,
                 !.a = StOf(Step(probe.a, probe.gravity, fMul(dtBase, Scale),
                                 [g |-> probe.g, u |-> probe.ua], 5 * probe.n)),
                 !.b = StOf(Step(probe.b, probe.gravity, fMul(dtBase, Scale),
                                 [g |-> probe.g, u |-> probe.ub], 5 * probe.n))]
  /\ UNCHANGED <<store, phase, st, speeds, edits, ticks, lastOp>>

SpecTwin == InitTwin /\ [][TwinStep]_vars

\* ------------------------------------------------------------------------
\* BarterSim (pages/Future.tsx): agents that walk and trade goods
\* ------------------------------------------------------------------------

GOODS == <<"fish", "grain", "tool", "bead">>

\* randomGood(): GOODS[Math.floor(Math.random() * GOODS.length)]
randomGood(d, k) == GOODS[(Rand(d, k) * Len(GOODS)) \div Scale + 1]

tradeDist == 6000
walkStep == 200
beadWantP == 3500
beadTakeP == 6000
maxShownPairs == 50

\* a.pos.x += (Math.random() - 0.5) * 0.02; a.pos.z likewise
WalkAgent(a, d, k) ==
  [a EXCEPT !.pos = <<fAdd(a.pos[1], fMul(fSub(Rand(d, k), Scale \div 2), walkStep)),
                      a.pos[2],
                      fAdd(a.pos[3], fMul(fSub(Rand(d, k + 1), Scale \div 2), walkStep))>>]

RECURSIVE WalkFrom(_, _, _, _)
\* "for (const a of agents.current)": the random walk of the agents i, i + 1, ...
WalkFrom(agents, i, d, k) ==
  IF i > Len(agents) THEN <<>>
  ELSE <<WalkAgent(agents[i], d, k)>> \o WalkFrom(agents, i + 1, d, k + 2)

\* a.pos.distanceTo(b.pos)
distanceTo(p, q) == vLength(vSub(p, q))

\* Math.random() < 0.35 ? 'bead' : randomGood(), drawing from the k-th value
NewWant(d, k) == IF Rand(d, k) < beadWantP THEN "bead" ELSE randomGood(d, k + 1)
\* the number of values that expression draws
WantDraws(d, k) == IF Rand(d, k) < beadWantP THEN 1 ELSE 2

\* the loop's state after one tested pair: the agents i and j become a2 and
\* b2, used values were drawn, pushed lines were added to newPairs and
\* beadScoreRef grew by scored; entry records the test
SetPair(s, i, j, a2, b2, used, pushed, scored, entry) ==
  [agents |-> [s.agents EXCEPT ![i] = a2, ![j] = b2],
   k |-> s.k + used,
   pairs |-> s.pairs + pushed,
   beadScore |-> s.beadScore + scored,
   log |-> Append(s.log, entry)]

\* what a tested pair did: the agents before (a, b) and after (a2, b2), the
\* values of aTakesBead and bTakesBead, and who picked a new want
Entry(a, b, a2, b2, aTakes, bTakes, picked) ==
  [a |-> a, b |-> b, a2 |-> a2, b2 |-> b2, aTakes |-> aTakes, bTakes |-> bTakes,
   picked |-> picked]

\* a direct barter that forgets to exchange the goods
DirectKeep(s, i, j, a, b, d, k) ==
  SetPair(s, i, j,
          [a EXCEPT !.want = NewWant(d, k)],
          [b EXCEPT !.want = NewWant(d, k + WantDraws(d, k))],
          WantDraws(d, k) + WantDraws(d, k + WantDraws(d, k)), 1, 0,
          Entry(a, b, [a EXCEPT !.want = NewWant(d, k)],
                [b EXCEPT !.want = NewWant(d, k + WantDraws(d, k))],
                FALSE, FALSE, {"a", "b"}))

\* direct barter: swap the goods, then each picks a new want
Direct(s, i, j, a, b, d, k) ==
  SetPair(s, i, j,
          [a EXCEPT !.inv = b.inv, !.want = NewWant(d, k)],
          [b EXCEPT !.inv = a.inv, !.want = NewWant(d, k + WantDraws(d, k))],
          WantDraws(d, k) + WantDraws(d, k + WantDraws(d, k)), 1, 0,
          Entry(a, b, [a EXCEPT !.inv = b.inv, !.want = NewWant(d, k)],
                [b EXCEPT !.inv = a.inv, !.want = NewWant(d, k + WantDraws(d, k))],
                FALSE, FALSE, {"a", "b"}))

\* an agent that accepts whatever the counterpart holds
TakesAnything(other, d, k) == Rand(d, k) < beadTakeP

\* aTakesBead = b.inv === 'bead' && Math.random() < 0.6 (other is b), and
\* bTakesBead likewise (other is a); the value is drawn only for a bead
TakesBead(other, d, k) == other.inv = "bead" /\ Rand(d, k) < beadTakeP
TakeDraws(other) == IF other.inv = "bead" THEN 1 ELSE 0

Bool(x) == IF x THEN 1 ELSE 0

\* an acceptance that hands over a copy: the taker gets the counterpart's
\* good and the counterpart keeps it
BeadSwapCopy(s, i, j, a, b, aTakes, bTakes, used) ==
  IF aTakes # bTakes
  THEN SetPair(s, i, j, [a EXCEPT !.inv = IF aTakes THEN b.inv ELSE a.inv],
               [b EXCEPT !.inv = IF bTakes THEN a.inv ELSE b.inv], used, 1, 1,
               Entry(a, b, [a EXCEPT !.inv = IF aTakes THEN b.inv ELSE a.inv],
                     [b EXCEPT !.inv = IF bTakes THEN a.inv ELSE b.inv],
                     aTakes, bTakes, {}))
  ELSE SetPair(s, i, j, a, b, used, 2 * Bool(aTakes), Bool(aTakes),
               Entry(a, b, a, b, aTakes, bTakes, {}))

\* the else branch once aTakes and bTakes are known: one swap for each
\* that is true (two swaps put the goods back)
BeadSwap(s, i, j, a, b, aTakes, bTakes, used) ==
  IF aTakes # bTakes
  THEN SetPair(s, i, j, [a EXCEPT !.inv = b.inv], [b EXCEPT !.inv = a.inv],
               used, 1, 1,
               Entry(a, b, [a EXCEPT !.inv = b.inv], [b EXCEPT !.inv = a.inv],
                     aTakes, bTakes, {}))
  ELSE SetPair(s, i, j, a, b, used, 2 * Bool(aTakes), Bool(aTakes),
               Entry(a, b, a, b, aTakes, bTakes, {}))

\* the else branch: beads accepted as an intermediate good
Bead(s, i, j, a, b, d, k) ==
  BeadSwap(s, i, j, a, b, TakesBead(b, d, k), TakesBead(a, d, k + TakeDraws(b)),
           TakeDraws(b) + TakeDraws(a))

\* the body of the inner loop for the agents a = agents[i], b = agents[j]
Trade(s, i, j, a, b, d, k) ==
  IF distanceTo(a.pos, b.pos) < tradeDist
  THEN IF a.want = b.inv /\ b.want = a.inv
       THEN Direct(s, i, j, a, b, d, k)
       ELSE Bead(s, i, j, a, b, d, k)
  ELSE SetPair(s, i, j, a, b, 0, 0, 0, Entry(a, b, a, b, FALSE, FALSE, {}))

RECURSIVE PairsFrom(_, _, _, _)
\* "for i ... for j = i + 1 ...": the pairs (i, j), (i, j + 1), ... in order
PairsFrom(s, i, j, d) ==
  IF i > Len(s.agents) THEN s
  ELSE IF j > Len(s.agents) THEN PairsFrom(s, i + 1, i + 2, d)
  ELSE PairsFrom(Trade(s, i, j, s.agents[i], s.agents[j], d, s.k), i, j + 1, d)

\* BarterSim's useFrame callback on the agents, with beadScoreRef.current
BarterTick(agents, beadScore, d) ==
  PairsFrom([agents |-> WalkFrom(agents, 1, d, 0), k |-> 2 * Len(agents),
             pairs |-> 0, beadScore |-> beadScore, log |-> <<>>], 1, 2, d)

\* the positions of three agents: two close and one far; three close to each
\* other with two of them about the threshold apart
BarterLayouts ==
  { << <<0, 0, 0>>, <<3000, 0, 2000>>, <<20000, 1000, 0 - 10000>> >>,
    << <<0, 0, 0>>, <<5950, 0, 0>>, <<3000, 1000, 4000>> >> }

Goods == {GOODS[i] : i \in 1..Len(GOODS)}

\* the agents useAgents creates: positions of a layout, goods drawn by
\* randomGood()
BarterAgents ==
  {<<[pos |-> l[1], inv |-> i1, want |-> w1],
     [pos |-> l[2], inv |-> i2, want |-> w2],
     [pos |-> l[3], inv |-> i3, want |-> w3]>> :
     l \in BarterLayouts, i1 \in Goods, w1 \in Goods, i2 \in Goods, w2 \in Goods,
     i3 \in {"bead", "fish"}, w3 \in {"bead", "grain"}}

MaxBarterFrames == 1

InitBarter ==
  /\ Idle
  /\ \E ags \in BarterAgents :
       probe = [kind |-> "barter", agents |-> ags, beadScore |-> 0, pairs |-> 0,
                log |-> <<>>, frames |-> 0]

\* Math.min(n, 50): newPairs.slice(0, 50)
Shown(n) == IF n > maxShownPairs THEN maxShownPairs ELSE n

\* a frame of the barter scene
BarterFrame ==
  /\ probe.kind = "barter"
  /\ probe.frames < MaxBarterFrames
  /\ \E d \in Draws :
       \E r \in {BarterTick(probe.agents, probe.beadScore, d)} :
         probe' = [kind |-> "barter", agents |-> r.agents, beadScore |-> r.beadScore,
                   pairs |-> Shown(r.pairs), log |-> r.log,
                   frames |-> probe.frames + 1]
  /\ UNCHANGED <<store, phase, st, speeds, edits, ticks, lastOp>>

SpecBarter == InitBarter /\ [][BarterFrame]_vars

\* the number of agents holding the good
Holders(agents, good) ==
  Cardinality({i \in 1..Len(agents) : agents[i].inv = good})

\* beadShare(): Math.round(beadHolders / agents.length * 100), the ratio
\* rounded half up
beadShare(agents) ==
  (200 * Holders(agents, "bead") + Len(agents)) \div (2 * Len(agents))

\* ------------------------------------------------------------------------
\* The integrator run for many steps at the default temperature, gravity off
\* ------------------------------------------------------------------------

RECURSIVE SumFiniteSq(_)
\* s.reduce((a, b) => a + (Number.isFinite(b) ? b * b : 0), 0)
SumFiniteSq(sp) ==
  IF sp = <<>> THEN 0
  ELSE fAdd(IF IsFinite(Head(sp)) THEN fMul(Head(sp), Head(sp)) ELSE 0,
            SumFiniteSq(Tail(sp)))

\* VelocityBalloon3D's meanV2 readout of sim.speeds
ReportedMeanV2(sp) == IF Len(sp) = 0 THEN 0 ELSE fDiv(SumFiniteSq(sp), Len(sp) * Scale)

MaxRunSteps == 40

\* the simulation after its mount with n particles and the default balloon
RunInputs ==
  {[kind |-> "run",
    s |-> Effect(InitialSt(b, [g |-> g, u |-> u]), b, [g |-> g, u |-> u]),
    speeds |-> Zeros(SpeedsInitLen(b.particles) \div Scale),
    g |-> g, u |-> u, n |-> 0, hits |-> 0] :
     b \in {[InitBalloon EXCEPT !.particles = n] : n \in UIParticles},
     g \in Seeds, u \in Seeds}

InitRun == Idle /\ probe \in RunInputs

\* one more step(dtBase) of the run
RunStep ==
  /\ probe.kind = "run"
  /\ probe.n < MaxRunSteps
  /\ \E r \in {Step(probe.s, FALSE, fMul(dtBase, Scale),
                    [g |-> probe.g, u |-> probe.u], 5 * probe.n)} :
       probe' = [probe EXCEPT !.n = probe.n + 1, !.s = StOf(r), !.speeds = r.speeds,
                              !.hits = probe.hits + Cardinality(r.hits)]
  /\ UNCHANGED <<store, phase, st, speeds, edits, ticks, lastOp>>

SpecRun == InitRun /\ [][RunStep]_vars

\* ------------------------------------------------------------------------
\* VelocityBalloon3D's radius sync effect and the browser's frame callbacks
\* ------------------------------------------------------------------------

MaxSyncOps == 6

\* no effect has run: nothing is scheduled
InitSync ==
  /\ Idle
  /\ probe = [kind |-> "sync", shown |-> FALSE, queue |-> {}, closures |-> <<>>,
              nextId |-> 1, ops |-> 0, frames |-> 0, late |-> 0, dirty |-> FALSE]

\* requestAnimationFrame(sync) called by effect instance inst: the callback
\* list with the new entry
requestAnimationFrame(queue, id, inst) == queue \cup {[id |-> id, inst |-> inst]}

\* cancelAnimationFrame(id)
cancelAnimationFrame(queue, id) == {e \in queue : e.id # id}

\* a cleanup that cancels the frame the effect requested first
CleanupFirst(queue, c) == cancelAnimationFrame(queue, c.first)

\* the effect's cleanup "() => cancelAnimationFrame(raf)" for the closure c:
\* raf is the variable that sync reassigns
Cleanup(queue, c) == cancelAnimationFrame(queue, c.raf)

\* the effect body: "let raf = 0; ...; raf = requestAnimationFrame(sync)"
\* creates a closure and schedules its first frame
RunEffect(p, queue) ==
  [p EXCEPT !.queue = requestAnimationFrame(queue, p.nextId, Len(p.closures) + 1),
            !.closures = Append(p.closures, [first |-> p.nextId, raf |-> p.nextId]),
            !.nextId = p.nextId + 1,
            !.ops = p.ops + 1,
            !.dirty = FALSE]

\* the component mounts and its effect runs
SyncMount ==
  /\ probe.kind = "sync"
  /\ ~probe.shown
  /\ probe.ops < MaxSyncOps
  /\ probe' = [RunEffect(probe, probe.queue) EXCEPT !.shown = TRUE]
  /\ UNCHANGED <<store, phase, st, speeds, edits, ticks, lastOp>>

\* a re-render: useBalloonSim returned a new sim object, so the effect's
\* cleanup runs and then the effect again
SyncRender ==
  /\ probe.kind = "sync"
  /\ probe.shown
  /\ probe.ops < MaxSyncOps
  /\ probe' = RunEffect(probe, Cleanup(probe.queue, probe.closures[Len(probe.closures)]))
  /\ UNCHANGED <<store, phase, st, speeds, edits, ticks, lastOp>>

\* the browser runs a scheduled sync callback: it reads the radius, writes
\* it to the store when finite (changed: the store notifies React), and
\* requests the next frame, keeping its id in the closure's raf
SyncFrame ==
  /\ probe.kind = "sync"
  /\ probe.ops < MaxSyncOps
  /\ \E e \in probe.queue, changed \in BOOLEAN :
       probe' = [probe EXCEPT
                   !.queue = requestAnimationFrame(probe.queue \ {e}, probe.nextId, e.inst),
                   !.closures[e.inst].raf = probe.nextId,
                   !.nextId = probe.nextId + 1,
                   !.ops = probe.ops + 1,
                   !.frames = probe.frames + 1,
                   !.late = probe.late + Bool(~probe.shown),
                   !.dirty = probe.dirty \/ changed]
  /\ UNCHANGED <<store, phase, st, speeds, edits, ticks, lastOp>>

\* the component unmounts: the cleanup of the last effect run
SyncUnmount ==
  /\ probe.kind = "sync"
  /\ probe.shown
  /\ probe' = [probe EXCEPT !.shown = FALSE, !.dirty = FALSE,
                            !.queue = Cleanup(probe.queue, probe.closures[Len(probe.closures)])]
  /\ UNCHANGED <<store, phase, st, speeds, edits, ticks, lastOp>>

NextSync == SyncMount \/ SyncRender \/ SyncFrame \/ SyncUnmount

SpecSync == InitSync /\ [][NextSync]_vars

\* ------------------------------------------------------------------------
\* The radius easing of step under a constant target radius
\* ------------------------------------------------------------------------

\* radii the simulation can hold and clamped targets step can derive
EaseRadii == {minR, Scale, DefaultRadius, maxParamR, 25000, maxR}
EaseTargets == {minR, 12000, 22160, maxR}

InitEase ==
  /\ Idle
  /\ \E R \in EaseRadii, T \in EaseTargets :
       probe = [kind |-> "ease", R |-> R, target |-> T, start |-> R, n |-> 0]

\* the end of one more step: "R = lerp(R, targetRadius, ...); st.radius = R",
\* taken while it still changes the radius
EaseStep ==
  /\ probe.kind = "ease"
  /\ EaseRadius(probe.R, probe.target) # probe.R
  /\ probe' = [probe EXCEPT !.R = EaseRadius(probe.R, probe.target), !.n = probe.n + 1]
  /\ UNCHANGED <<store, phase, st, speeds, edits, ticks, lastOp>>

SpecEase == InitEase /\ [][EaseStep]_vars

\* ------------------------------------------------------------------------
\* Policy (pages/Policy.tsx): the ledger tiles and their equity plug
\* ------------------------------------------------------------------------

\* a ledger entry; the amounts of the page are whole numbers
LedgerEntry(account, amount, side) == [account |-> account, amount |-> amount, side |-> side]

RECURSIVE SideTotal(_, _)
\* entries.filter(e => e.side === side).reduce((s, e) => s + e.amount, 0)
SideTotal(entries, side) ==
  IF entries = <<>> THEN 0
  ELSE (IF Head(entries).side = side THEN Head(entries).amount ELSE 0)
       + SideTotal(Tail(entries), side)

\* needed = Math.max(0, A - (L + E))
Needed(A, L, E) == IF A - (L + E) > 0 THEN A - (L + E) ELSE 0

\* "if (needed > 0) return [...entries, plug]; return entries"
WithPlug(entries, needed) ==
  IF needed > 0 THEN Append(entries, LedgerEntry("Equity (plug)", needed, "Equity"))
  ELSE entries

plugEquity(entries) ==
  WithPlug(entries, Needed(SideTotal(entries, "Assets"), SideTotal(entries, "Liabilities"),
                           SideTotal(entries, "Equity")))

\* the entry lists of the four steps before plugEquity: cb, bank and, in the
\* last step, investor
stepEntries ==
  << [cb |-> <<LedgerEntry("Securities (Govt)", 0, "Assets"),
               LedgerEntry("Loans to Banks", 0, "Assets"),
               LedgerEntry("Bank Reserves", 100, "Liabilities"),
               LedgerEntry("Currency in Circulation", 0, "Liabilities")>>,
      bank |-> <<LedgerEntry("Reserves at CB", 100, "Assets"),
                 LedgerEntry("Govt Bonds", 100, "Assets"),
                 LedgerEntry("Deposits (Customers)", 100, "Liabilities")>>],
     [cb |-> <<LedgerEntry("Securities (Govt)", 100, "Assets"),
               LedgerEntry("Bank Reserves", 200, "Liabilities")>>,
      bank |-> <<LedgerEntry("Reserves at CB", 200, "Assets"),
                 LedgerEntry("Govt Bonds", 0, "Assets"),
                 LedgerEntry("Deposits (Customers)", 100, "Liabilities")>>],
     [cb |-> <<LedgerEntry("Securities (Govt)", 0, "Assets"),
               LedgerEntry("Bank Reserves", 100, "Liabilities")>>,
      bank |-> <<LedgerEntry("Reserves at CB", 100, "Assets"),
                 LedgerEntry("Govt Bonds", 100, "Assets"),
                 LedgerEntry("Deposits (Customers)", 100, "Liabilities")>>],
     [cb |-> <<LedgerEntry("Securities (Govt)", 100, "Assets"),
               LedgerEntry("Bank Reserves", 200, "Liabilities")>>,
      bank |-> <<LedgerEntry("Reserves at CB", 200, "Assets"),
                 LedgerEntry("Govt Bonds", 100, "Assets"),
                 LedgerEntry("Deposits (Customers)", 200, "Liabilities")>>,
      investor |-> <<LedgerEntry("Deposit at Bank A", 100, "Assets")>>] >>

\* the tiles of the page: (step, name) for every list above
PolicyTiles ==
  {[step |-> i, tile |-> t, entries |-> stepEntries[i][t]] :
     i \in 1..Len(stepEntries), t \in {"cb", "bank"}}
  \cup {[step |-> Len(stepEntries), tile |-> "investor",
         entries |-> stepEntries[Len(stepEntries)].investor]}

MaxEntries == 3

\* any short list of entries
AnyEntries ==
  UNION {[1..n -> {LedgerEntry("x", a, sd) : a \in {0, 100},
                                             sd \in {"Assets", "Liabilities", "Equity"}}] :
           n \in 0..MaxEntries}

InitPlug ==
  /\ Idle
  /\ \/ \E t \in PolicyTiles :
          probe = [kind |-> "plug", step |-> t.step, tile |-> t.tile,
                   entries |-> t.entries, out |-> <<>>, done |-> FALSE]
     \/ \E es \in AnyEntries :
          probe = [kind |-> "plug", step |-> 0, tile |-> "any",
                   entries |-> es, out |-> <<>>, done |-> FALSE]

\* the render evaluates plugEquity on the list
ApplyPlug ==
  /\ probe.kind = "plug"
  /\ ~probe.done
  /\ probe' = [probe EXCEPT !.done = TRUE, !.out = plugEquity(probe.entries)]
  /\ UNCHANGED <<store, phase, st, speeds, edits, ticks, lastOp>>

SpecPlug == InitPlug /\ [][ApplyPlug]_vars

\* ------------------------------------------------------------------------
\* The walkthrough pages: Banks (pages/Banks.tsx) and Policy, with their
\* steppers
\* ------------------------------------------------------------------------

\* clamp(n, min, max) = Math.min(max, Math.max(min, n))
clamp(n, min, max) == fMin(max, fMax(min, n))

\* reserveRatio = clamp(reserveRatioPct, 0, 100) / 100
reserveRatio(reserveRatioPct) ==
  fDiv(clamp(reserveRatioPct * Scale, 0, 100 * Scale), 100 * Scale)

\* loanOut = initialCashDeposit * (1 - reserveRatio); redeposit = loanOut
loanOut(initialCashDeposit, rr) == fMul(initialCashDeposit, fSub(Scale, rr))
redeposit(initialCashDeposit, rr) == loanOut(initialCashDeposit, rr)

RECURSIVE makeEntries(_, _)
\* makeEntries(map, side): the accounts <<name, amount>> of map with
\* |amount| > 1e-9, in the order of the object's keys
makeEntries(map, side) ==
  IF map = <<>> THEN <<>>
  ELSE (IF Abs(Head(map)[2]) > 0
        THEN <<LedgerEntry(Head(map)[1], Head(map)[2], side)>>
        ELSE <<>>)
       \o makeEntries(Tail(map), side)

\* a step-3 liability side in which the merchant's deposit is added to the
\* borrower's instead of replacing it
bankLKeepBorrower(step, D, rr) ==
  IF step = 1 THEN << <<"Deposits (Customer)", D>> >>
  ELSE IF step = 2
  THEN << <<"Deposits (Customer)", D>>, <<"Deposits (Borrower)", loanOut(D, rr)>> >>
  ELSE IF step = 3
  THEN << <<"Deposits (Customer)", D>>, <<"Deposits (Borrower)", loanOut(D, rr)>>,
          <<"Deposits (Merchant)", redeposit(D, rr)>> >>
  ELSE <<>>

\* bankA at the step, for the deposit D and the reserve ratio rr
bankA(step, D, rr) ==
  IF step = 1 THEN << <<"Reserves/Cash", D>> >>
  ELSE IF step \in {2, 3}
  THEN << <<"Reserves/Cash", fMul(D, rr)>>, <<"Loan to Borrower", loanOut(D, rr)>> >>
  ELSE <<>>

\* bankL at the step
bankL(step, D, rr) ==
  IF step = 1 THEN << <<"Deposits (Customer)", D>> >>
  ELSE IF step = 2
  THEN << <<"Deposits (Customer)", D>>, <<"Deposits (Borrower)", loanOut(D, rr)>> >>
  ELSE IF step = 3
  THEN << <<"Deposits (Customer)", D>>, <<"Deposits (Merchant)", redeposit(D, rr)>> >>
  ELSE <<>>

\* bankEntries of the render (bankE stays empty)
bankEntries(step, D, rr) ==
  makeEntries(bankA(step, D, rr), "Assets")
  \o makeEntries(bankL(step, D, rr), "Liabilities")
  \o makeEntries(<<>>, "Equity")

\* a page that shows the baseline tiles at every step
tilesBaseline(step) ==
  [cb |-> plugEquity(stepEntries[1].cb), bank |-> plugEquity(stepEntries[1].bank)]

\* tiles = steps[step] of the Policy page (step counts from 0)
tiles(step) ==
  [cb |-> plugEquity(stepEntries[step + 1].cb),
   bank |-> plugEquity(stepEntries[step + 1].bank)]

\* the values of the Banks sliders the model moves them to
UIReservePcts == {0, 5, 10, 15, 20, 25, 30, 35, 40, 45, 50}
UIDeposits == {100 * Scale, 1000 * Scale, 1100 * Scale, 2500 * Scale, 5000 * Scale}

\* a page after its mount: useState(10), useState(1000), useState(0)
PageState(page) ==
  [kind |-> "pages", page |-> page, step |-> 0, reserveRatioPct |-> 10,
   initialCashDeposit |-> 1000 * Scale, op |-> "mount"]

InitPages == Idle /\ \E page \in {"banks", "policy"} : probe = PageState(page)

\* the route changes to the other page, which mounts with fresh state
Navigate ==
  /\ probe.kind = "pages"
  /\ \E page \in {"banks", "policy"} \ {probe.page} : probe' = PageState(page)
  /\ UNCHANGED <<store, phase, st, speeds, edits, ticks, lastOp>>

\* Reserve Ratio slider: setReserveRatioPct(+e.target.value)
setReserveRatioPct ==
  /\ probe.kind = "pages"
  /\ probe.page = "banks"
  /\ \E v \in UIReservePcts \ {probe.reserveRatioPct} :
       probe' = [probe EXCEPT !.reserveRatioPct = v, !.op = "set"]
  /\ UNCHANGED <<store, phase, st, speeds, edits, ticks, lastOp>>

\* Initial Cash Deposit slider: setInitialCashDeposit(+e.target.value)
setInitialCashDeposit ==
  /\ probe.kind = "pages"
  /\ probe.page = "banks"
  /\ \E v \in UIDeposits \ {probe.initialCashDeposit} :
       probe' = [probe EXCEPT !.initialCashDeposit = v, !.op = "set"]
  /\ UNCHANGED <<store, phase, st, speeds, edits, ticks, lastOp>>

\* the number of steps of the page: steps.length in Banks, the literal 3 + 1
\* in Policy
StepsLength(page) == IF page = "banks" THEN 4 ELSE Len(stepEntries)

\* an onPrev that only subtracts
PrevTo(s) == s - 1

\* onPrev: setStep(s => Math.max(0, s - 1))
onPrev(s) == IF s - 1 > 0 THEN s - 1 ELSE 0
\* onNext: setStep(s => Math.min(last, s + 1))
onNext(s, last) == IF s + 1 < last THEN s + 1 ELSE last

\* the Prev button of the page's Stepper
Prev ==
  /\ probe.kind = "pages"
  /\ probe' = [probe EXCEPT !.step = onPrev(probe.step), !.op = "prev"]
  /\ UNCHANGED <<store, phase, st, speeds, edits, ticks, lastOp>>

\* the Next button of the page's Stepper
NextStep ==
  /\ probe.kind = "pages"
  /\ probe' = [probe EXCEPT !.step = onNext(probe.step, StepsLength(probe.page) - 1),
                            !.op = "next"]
  /\ UNCHANGED <<store, phase, st, speeds, edits, ticks, lastOp>>

NextPages == Navigate \/ setReserveRatioPct \/ setInitialCashDeposit \/ Prev \/ NextStep

SpecPages == InitPages /\ [][NextPages]_vars

\* ------------------------------------------------------------------------
\* The round table of fractional reserve lending (simulateFractional)
\* ------------------------------------------------------------------------

maxSteps == 12
\* 0.01
cent == Scale \div 100

\* x.toFixed(2) for x >= 0: the digits of x rounded to hundredths, as a count
\* of hundredths. A value that is a tie in decimal lies just above or just
\* below the tie as a binary double, so a tie rounds up or down (up)
toFixed2(x, up) ==
  IF x % cent > cent \div 2 \/ (x % cent = cent \div 2 /\ up)
  THEN x \div cent + 1 ELSE x \div cent

\* the unary plus on the digits toFixed(2) printed
parseFixed2(hundredths) == hundredths * cent

\* reserve = +(deposit * reserveRatio).toFixed(2)
reserveOf(deposit, rr, up) == parseFixed2(toFixed2(fMul(deposit, rr), up))

\* a bank that lends out the whole deposit
loanWhole(deposit, reserve) == deposit

\* loan = +(deposit - reserve).toFixed(2)
loanOf(deposit, reserve) == parseFixed2(toFixed2(fSub(deposit, reserve), FALSE))

\* the row steps.push(...) adds in round i (0-based)
fracRow(i, deposit, reserve, loan, cumulativeDeposits, cumulativeLoans) ==
  [depositor |-> i + 1, deposit |-> deposit, reserve |-> reserve, loan |-> loan,
   cumulativeDeposits |-> parseFixed2(toFixed2(fAdd(cumulativeDeposits, deposit), FALSE)),
   cumulativeLoans |-> parseFixed2(toFixed2(fAdd(cumulativeLoans, loan), FALSE))]

\* the row of a deposit whose reserve is known
fracRowOf(i, deposit, reserve, cumulativeDeposits, cumulativeLoans) ==
  fracRow(i, deposit, reserve, loanOf(deposit, reserve), cumulativeDeposits,
          cumulativeLoans)

RECURSIVE fracLoop(_, _, _, _, _, _, _)
\* after the push of a row: "remaining = loan; if (loan < 0.01) break"
fracPush(steps, i, rr, ties, row) ==
  IF fGt(cent, row.loan) THEN Append(steps, row)
  ELSE fracLoop(Append(steps, row), i + 1, row.loan, rr, ties,
                row.cumulativeDeposits, row.cumulativeLoans)

\* the for loop from round i on, ties[i + 1] telling how round i's tie falls
fracLoop(steps, i, remaining, rr, ties, cumulativeDeposits, cumulativeLoans) ==
  IF i >= maxSteps THEN steps
  ELSE fracPush(steps, i, rr, ties,
                fracRowOf(i, remaining, reserveOf(remaining, rr, ties[i + 1]),
                          cumulativeDeposits, cumulativeLoans))

simulateFractional(initialDeposit, rr, ties) ==
  fracLoop(<<>>, 0, initialDeposit, rr, ties, 0, 0)

\* values of the Initial Deposit slider (100 to 5000 in steps of 50)
FracDeposits == {100 * Scale, 150 * Scale, 1000 * Scale, 2550 * Scale, 5000 * Scale}

\* values of the Reserve Ratio slider (0.01 to 0.3 in steps of 0.01), and
\* larger ratios, which the function accepts and at which lending dies out
\* before the last round
FracRatios == {100, 300, 700, 1500, 3000} \cup {5000, 9000, 9900, Scale}

\* how the ties fall: always down, always up, or alternating
FracTies ==
  {[n \in 1..maxSteps |-> FALSE], [n \in 1..maxSteps |-> TRUE],
   [n \in 1..maxSteps |-> n % 2 = 0], [n \in 1..maxSteps |-> n % 2 = 1]}

InitFractional ==
  /\ Idle
  /\ \E initial \in FracDeposits, rr \in FracRatios, ties \in FracTies :
       probe = [kind |-> "fractional", initial |-> initial, rr |-> rr,
                ties |-> ties, done |-> FALSE, steps |-> <<>>]

\* Banks renders: steps = simulateFractional(initial, rr)
Simulate ==
  /\ probe.kind = "fractional"
  /\ ~probe.done
  /\ probe' = [probe EXCEPT !.done = TRUE,
                            !.steps = simulateFractional(probe.initial, probe.rr,
                                                         probe.ties)]
  /\ UNCHANGED <<store, phase, st, speeds, edits, ticks, lastOp>>

SpecFractional == InitFractional /\ [][Simulate]_vars

\* ------------------------------------------------------------------------
\* The Reset button and its deferred callback
\* ------------------------------------------------------------------------

\* the most clicks of Reset in a run
MaxResets == 1

\* pending: the timeouts Reset has set and that have not run, each with the
\* balloon.particles its closure captured; chosen: the particle count the
\* user chose last (the initial count before any change of the slider)
InitReset ==
  /\ Idle
  /\ probe = [kind |-> "reset", pending |-> <<>>, chosen |-> store.particles,
              resets |-> 0]

\* the Particles slider: setBalloon('particles', +e.target.value)
ResetSlider ==
  /\ probe.kind = "reset"
  /\ phase = "mounted"
  /\ edits < MaxEdits
  /\ edits' = edits + 1
  /\ UNCHANGED ticks
  /\ \E v \in UIParticles :
       /\ store.particles # v
       /\ probe' = [probe EXCEPT !.chosen = v]
       /\ \E d \in Draws : Commit(setBalloon(store, "particles", v), "edit", d)

\* the other controls of the page
ResetOther ==
  /\ probe.kind = "reset"
  /\ \/ \E v \in UITemperatures : Edit("temperature", v)
     \/ Edit("gravity", ~store.gravity)
     \/ Edit("paused", ~store.paused)

\* Reset's onClick: setBalloon('particles', balloon.particles + 1) and
\* setTimeout(() => setBalloon('particles', balloon.particles), 0), where
\* balloon is the store value of the render that made the handler
ResetClick ==
  /\ probe.kind = "reset"
  /\ phase = "mounted"
  /\ probe.resets < MaxResets
  /\ probe' = [probe EXCEPT !.pending = Append(@, store.particles),
                            !.resets = @ + 1]
  /\ UNCHANGED <<edits, ticks>>
  /\ \E d \in Draws :
       Commit(setBalloon(store, "particles", fAdd(store.particles, Scale)),
              "reset", d)

\* the timeout's callback runs: the oldest pending one first. The store
\* outlives the page, so it is written also when the page is not shown
ResetTimeout ==
  /\ probe.kind = "reset"
  /\ probe.pending # <<>>
  /\ probe' = [probe EXCEPT !.pending = Tail(@)]
  /\ UNCHANGED <<edits, ticks>>
  /\ IF phase = "mounted"
     THEN \E d \in Draws :
            Commit(setBalloon(store, "particles", Head(probe.pending)), "timeout", d)
     ELSE /\ store' = setBalloon(store, "particles", Head(probe.pending))
          /\ lastOp' = [NoOp EXCEPT !.op = "timeout"]
          /\ UNCHANGED <<phase, st, speeds>>

NextReset ==
  \/ Mount \/ Unmount \/ Sync \/ Tick
  \/ ResetSlider \/ ResetOther \/ ResetClick \/ ResetTimeout

\* the page with its Reset button
SpecReset == InitReset /\ [][NextReset]_vars

\* ------------------------------------------------------------------------
\* The configuration store on its own (useUI)
\* ------------------------------------------------------------------------

\* the state create() builds: the flags and the balloon record with the
\* unscaled default of 400 particles
useUI ==
  [darkMode |-> TRUE, animationSpeed |-> Scale, prefersReducedMotion |-> FALSE,
   balloon |-> [InitBalloon EXCEPT !.particles = 400 * Scale]]

\* values of the controls: Particles (50..4000), Temperature (50..1500),
\* gravity, pause
StoreControls ==
  ({"particles"} \X {50 * Scale, 410 * Scale, 4000 * Scale})
    \cup ({"temperature"} \X {50 * Scale, 310 * Scale, 1500 * Scale})
    \cup ({"gravity", "paused"} \X BOOLEAN)

\* radii the simulation reports to the per-frame write-back
StoreRadii == {minR, DefaultRadius, 22792, maxR}

\* ui: the store; last: for every field the value last written to it (the
\* initial value while it was never written)
InitStore ==
  /\ Idle
  /\ probe = [kind |-> "store", ui |-> useUI, last |-> useUI, op |-> "init"]

\* a control calls setBalloon(k, v): set((s) => ({ balloon: {...} })) merges
\* the new balloon into the store
StoreUser ==
  /\ probe.kind = "store"
  /\ \E c \in StoreControls :
       probe' = [probe EXCEPT
                   !.ui.balloon = setBalloon(probe.ui.balloon, c[1], c[2]),
                   !.last.balloon[c[1]] = c[2],
                   !.op = "user"]
  /\ UNCHANGED <<store, phase, st, speeds, edits, ticks, lastOp>>

\* the per-frame write-back: setBalloon('radius', r) for a finite r
StoreSync ==
  /\ probe.kind = "store"
  /\ \E r \in StoreRadii :
       probe' = [probe EXCEPT
                   !.ui.balloon = setBalloon(probe.ui.balloon, "radius", r),
                   !.last.balloon.radius = r,
                   !.op = "sync"]
  /\ UNCHANGED <<store, phase, st, speeds, edits, ticks, lastOp>>

\* setDarkMode(v): set({ darkMode: v })
setDarkMode ==
  /\ probe.kind = "store"
  /\ \E v \in BOOLEAN :
       probe' = [probe EXCEPT !.ui.darkMode = v, !.last.darkMode = v, !.op = "flag"]
  /\ UNCHANGED <<store, phase, st, speeds, edits, ticks, lastOp>>

NextStore == StoreUser \/ StoreSync \/ setDarkMode

SpecStore == InitStore /\ [][NextStore]_vars

\* ------------------------------------------------------------------------
\* Properties
\* ------------------------------------------------------------------------

\* a count the sliders can produce: an integer >= 1
ValidCount(n) == IsFinite(n) /\ n >= Scale /\ n % Scale = 0

\* C1: whenever the component is mounted with a valid configured count N >= 1
\* (after the mount and after every parameter change, from a smaller or a
\* larger live count), getParticles() has exactly N members.
C1_CountMatches ==
  (phase = "mounted" /\ ValidCount(store.particles))
    => Len(st.parts) * Scale = store.particles

\* a parameter change has grown the live collection to three particles
C1_Witness ==
  /\ phase = "mounted"
  /\ lastOp.op = "edit"
  /\ lastOp.effect
  /\ store.particles = 3 * Scale
  /\ Len(st.parts) = 3

\* the numerical tolerance of the containment: 0.001
ContainTol == Scale \div 1000

\* C2: after a frame's integration steps every particle's distance from the
\* origin is at most the radius stored by the last step plus the tolerance.
C2_Contained ==
  (phase = "mounted" /\ lastOp.op = "tick" /\ lastOp.steps > 0)
    => \A i \in 1..Len(st.parts) :
         vLength(st.parts[i].position) <= st.radius + ContainTol

\* C3: while the simulation exists its radius is a finite number in
\* [minR, maxR] = [0.8, 3.2], whatever numbers the store is written with.
C3_RadiusInRange ==
  phase = "mounted" => (IsFinite(st.radius) /\ minR <= st.radius /\ st.radius <= maxR)

\* a step has eased the radius beyond the range of the parameter change
C3_Witness ==
  /\ phase = "mounted"
  /\ lastOp.op = "tick"
  /\ lastOp.steps > 0
  /\ st.radius > maxParamR

\* the numerical tolerance on a speed: 0.002
SpeedTol == Scale \div 500

\* C4: the collision leaves the particle's speed where it was, up to the
\* tangential jitter of at most 0.02 vRmsTarget, for every radius.
C4_SpeedPreserved ==
  (probe.kind = "collide" /\ probe.done)
    => Abs(vLength(probe.out) - vLength(probe.velocity))
         <= fMul(jitterFrac \div 2, probe.vRmsTarget) + SpeedTol

\* C5 as stated: the derived radius does not decrease when the count grows
\* with the mean square speed fixed, nor when the mean square speed grows
\* with the count fixed, for all non-negative values.
C5_MonotoneAll ==
  (probe.kind = "radius" /\ probe.done /\ IsFinite(probe.mean2))
    => /\ (probe.mean = probe.mean2 => probe.r <= probe.r2)
       /\ (probe.count = probe.count2 => probe.r <= probe.r2)

\* C5, amended: the derived radius does not decrease when the count grows
\* (any count >= 0, the mean square speed fixed), nor when the mean square
\* speed grows over the finite values above the 1e-8 threshold below which
\* step replaces the measured value by vRmsTarget^2 (the count fixed).
C5_Monotone ==
  (probe.kind = "radius" /\ probe.done)
    => /\ (probe.mean = probe.mean2 => probe.r <= probe.r2)
       /\ (probe.count = probe.count2 /\ fGt(probe.mean, tinySq) /\ IsFinite(probe.mean2)
             => probe.r <= probe.r2)

\* the derived radius has grown with the mean square speed, and with the count
C5_Witness ==
  /\ probe.kind = "radius"
  /\ probe.done
  /\ probe.count = probe.count2
  /\ fGt(probe.mean, tinySq)
  /\ probe.mean < probe.mean2
  /\ IsFinite(probe.mean2)
  /\ probe.r < probe.r2
  /\ probe.r2 < maxR

\* the largest change of a velocity's length by one step's noise and gravity:
\* three components of at most ZMax * noiseSigma, and |g| dt
KickBound(vRmsTarget, gravity) ==
  fMul(fMul(noiseFrac, ZMax), vRmsTarget)
  + (IF gravity THEN fMul(gAccel, fMul(dtBase, Scale)) ELSE 0) + SpeedTol

RECURSIVE Contract(_, _, _)
\* the bound on |speed - vRmsTarget| after n steps without a collision:
\* each step keeps 1 - thermostatBlend of the distance and adds the kick
Contract(dev, kick, n) ==
  IF n = 0 THEN dev
  ELSE Contract(fMul(Scale - thermostatBlend, dev) + kick, kick, n - 1)

\* |speed - vRmsTarget| of a particle
SpeedDev(p, temperature) == Abs(vLength(p.velocity) - VRmsTarget(temperature))

C7_Deterministic ==
  probe.kind = "twin" => probe.a = probe.b

\* C8: no render, effect or tick throws, whatever the store holds.
C8_NeverFails == phase # "failed"

\* C9: a parameter change from a live count n to a count m > n keeps the n
\* particles as they are, in place, and appends m - n particles after them;
\* to a count m < n it keeps the first m particles as they are and drops
\* the rest.
C9_Lifecycle ==
  [][(phase = "mounted" /\ phase' = "mounted" /\ lastOp'.op = "edit" /\ lastOp'.effect)
       => /\ store'.particles > Len(st.parts) * Scale
               => /\ Len(st'.parts) * Scale = store'.particles
                  /\ SubSeq(st'.parts, 1, Len(st.parts)) = st.parts
          /\ store'.particles < Len(st.parts) * Scale
               => st'.parts = SubSeq(st.parts, 1, store'.particles \div Scale)]_vars

\* a parameter change has dropped the trailing particle of two
C9_Witness ==
  /\ phase = "mounted"
  /\ lastOp.op = "edit"
  /\ lastOp.effect
  /\ store.particles = Scale
  /\ Len(st.parts) = 1

\* C10: after a parameter change the integrator's temperature is finite and
\* >= 1 and the simulation holds a positive number of particles, whatever
\* values the store was written with.
C10_SaneParameters ==
  (phase = "mounted" /\ lastOp.effect /\ lastOp.op = "edit")
    => /\ IsFinite(st.temperature)
       /\ st.temperature >= Scale
       /\ Len(st.parts) >= 1

\* the tests of the last barter frame
BarterLog == IF probe.kind = "barter" THEN {probe.log[n] : n \in 1..Len(probe.log)} ELSE {}

\* the pair was close enough to trade
Near(e) == distanceTo(e.a.pos, e.b.pos) < tradeDist
\* each held what the other wanted
DoubleCoincidence(e) == e.a.want = e.b.inv /\ e.b.want = e.a.inv

\* C11: every tested pair closer than 0.6 in which each agent holds what the
\* other wants swaps its goods and both pick a new want; a pair at distance
\* >= 0.6 is left as it was.
C11_DirectBarter ==
  \A e \in BarterLog :
    /\ (Near(e) /\ DoubleCoincidence(e))
         => /\ e.a2.inv = e.b.inv
            /\ e.b2.inv = e.a.inv
            /\ e.picked = {"a", "b"}
            /\ e.a2.want \in Goods
            /\ e.b2.want \in Goods
    /\ ~Near(e) => (e.a2 = e.a /\ e.b2 = e.b)

\* a close pair with a double coincidence of different goods has traded
C11_Witness ==
  \E e \in BarterLog :
    /\ Near(e)
    /\ DoubleCoincidence(e)
    /\ e.a.inv # e.b.inv
    /\ e.a2.inv = e.b.inv

\* C12: an agent accepts a bead only from a close counterpart that holds a
\* bead and only when the pair has no double coincidence; after one agent
\* accepted, it holds a bead and the counterpart holds its former good.
C12_BeadAcceptance ==
  \A e \in BarterLog :
    /\ e.aTakes => /\ Near(e) /\ ~DoubleCoincidence(e) /\ e.b.inv = "bead"
                   /\ e.a2.inv = "bead" /\ e.b2.inv = e.a.inv
    /\ e.bTakes => /\ Near(e) /\ ~DoubleCoincidence(e) /\ e.a.inv = "bead"
                   /\ e.b2.inv = "bead" /\ e.a2.inv = e.b.inv

\* an agent holding another good has accepted a bead
C12_Witness ==
  \E e \in BarterLog :
    /\ e.aTakes
    /\ ~e.bTakes
    /\ e.a.inv # "bead"
    /\ e.a2.inv = "bead"

\* the theoretical mean-square speed 3 T at the default temperature
TheoryMeanV2 == 3 * DefaultTemperature * Scale
\* x is within 15% of the theoretical value
WithinBand(x) ==
  /\ IsFinite(x)
  /\ 100 * x >= 85 * TheoryMeanV2
  /\ 100 * x <= 115 * TheoryMeanV2

\* C13: at temperature 300, mass 1 and gravity off, the mean-square speed
\* reported after the last step of a run (wall collisions included) lies
\* within 15% of 3 x 300 = 900.
C13_EndToEnd ==
  (probe.kind = "run" /\ probe.n = MaxRunSteps)
    => WithinBand(ReportedMeanV2(probe.speeds))

\* C14: once the visualization is torn down no sync callback is scheduled,
\* so none runs and none requests a further frame, whichever frame was
\* pending at the teardown and however often the effect had been re-run.
C14_Cancelled ==
  probe.kind = "sync" =>
    /\ probe.late = 0
    /\ ~probe.shown => probe.queue = {}

\* torn down after the effect was re-run and after sync callbacks had
\* rescheduled themselves
C14_Witness ==
  /\ probe.kind = "sync"
  /\ ~probe.shown
  /\ Len(probe.closures) >= 2
  /\ probe.frames >= 2
  /\ probe.closures[Len(probe.closures)].raf # probe.closures[Len(probe.closures)].first

\* C15: a tick while the store's paused flag is set runs no integration
\* step and leaves the particles, the radius and the reported speeds as they
\* were; a tick while it is clear runs at least one step.
C15_Pause ==
  [][(phase = "mounted" /\ ticks' = ticks + 1)
       => IF store.paused
          THEN /\ st' = st
               /\ speeds' = speeds
               /\ lastOp'.steps = 0
          ELSE lastOp'.steps >= 1]_vars

\* a frame has ticked the paused simulation
C15_Witness ==
  /\ phase = "mounted"
  /\ store.paused
  /\ lastOp.op = "tick"
  /\ lastOp.steps = 0
  /\ ticks = 1
  /\ Len(st.parts) >= 1

\* C16: a parameter-change step after an edit of the particle count or the
\* temperature, and the write-back of the simulation radius to the store,
\* leave the simulation's radius as the last integration step computed it.
C16_RadiusDerived ==
  [][(phase = "mounted" /\ phase' = "mounted" /\ lastOp'.op \in {"edit", "sync"})
       => st'.radius = st.radius]_vars

\* the rounding of the two products of a lerp: 0.0002
EaseTol == Scale \div 5000
\* the distance from the target at which the easing has converged: 0.001
ConvergeTol == Scale \div 1000

\* C17: each step's new radius lies between the previous radius and the
\* clamped target, having moved by 0.12 x 1.4 of the gap toward a target
\* above and by 0.12 of the gap toward a target below; under a constant
\* target the gap shrinks in every step until it is within 0.001, where the
\* radius comes to rest.
C17_Easing ==
  [][(probe.kind = "ease" /\ probe'.n = probe.n + 1)
       => /\ probe'.R >= fMin(probe.R, probe.target) - EaseTol
          /\ probe'.R <= fMax(probe.R, probe.target) + EaseTol
          /\ probe.target > probe.R
               => Abs((probe'.R - probe.R)
                      - fMul(fMul(radiusLerp, growBoostUp), probe.target - probe.R))
                    <= EaseTol
          /\ probe.target < probe.R
               => Abs((probe.R - probe'.R) - fMul(radiusLerp, probe.R - probe.target))
                    <= EaseTol
          /\ Abs(probe.target - probe'.R) <= Abs(probe.target - probe.R)
          /\ Abs(probe.target - probe.R) > ConvergeTol
               => Abs(probe.target - probe'.R) < Abs(probe.target - probe.R)
          /\ EaseRadius(probe'.R, probe.target) = probe'.R
               => Abs(probe.target - probe'.R) <= ConvergeTol]_vars

\* the radius has grown from its start to within 0.001 of a target above it
C17_Witness ==
  /\ probe.kind = "ease"
  /\ probe.start < probe.target - Scale
  /\ probe.R > probe.start
  /\ probe.n >= 10
  /\ Abs(probe.target - probe.R) <= ConvergeTol

\* all three components are finite numbers
Finite3(a) == IsFinite(a[1]) /\ IsFinite(a[2]) /\ IsFinite(a[3])

\* C18: after a frame's integration steps every position and velocity
\* component of every particle is finite and every reported speed is finite,
\* whatever parameters the store holds.
C18_Sanitised ==
  (phase = "mounted" /\ lastOp.op = "tick" /\ lastOp.steps > 0)
    => /\ \A i \in 1..Len(st.parts) :
            Finite3(st.parts[i].position) /\ Finite3(st.parts[i].velocity)
       /\ \A i \in 1..Len(speeds) : IsFinite(speeds[i])

\* a step at an infinite temperature blew a velocity up, and the clamp has
\* reset it to zero
C18_Witness ==
  /\ phase = "mounted"
  /\ lastOp.op = "tick"
  /\ lastOp.steps > 0
  /\ ~IsFinite(st.temperature)
  /\ \E i \in 1..Len(st.parts) : st.parts[i].velocity = Zero3

\* C19: for an empty ensemble (mean 0), a non-finite mean or a mean of at
\* most 1e-8 the radius is computed from the theoretical 3 T; for every
\* other mean it is computed from that mean itself.
C19_Fallback ==
  (probe.kind = "radius" /\ probe.done)
    => /\ MeanV2(<<>>) = 0
       /\ IF ~IsFinite(probe.mean) \/ probe.mean <= tinySq
          THEN Abs(probe.r - TargetRadius(probe.count, 3 * probe.temperature)) <= EaseTol
          ELSE probe.r = TargetRadius(probe.count, probe.mean)

\* a mean of 0 at T = 300 gave the radius of 3 T = 900, not the one of 0
C19_Witness ==
  /\ probe.kind = "radius"
  /\ probe.done
  /\ probe.mean = 0
  /\ probe.temperature = DefaultTemperature * Scale
  /\ probe.r > TargetRadius(probe.count, 0) + Scale

\* C20: the entries plugEquity returns balance, total Assets = total
\* Liabilities + total Equity, for every list of entries and in particular
\* for every tile of the four policy steps.
C20_Balanced ==
  (probe.kind = "plug" /\ probe.done)
    => SideTotal(probe.out, "Assets")
         = SideTotal(probe.out, "Liabilities") + SideTotal(probe.out, "Equity")

\* the Banks page is shown
OnBanks == probe.kind = "pages" /\ probe.page = "banks"
\* the bank's ledger of the current render
BankNow == bankEntries(probe.step, probe.initialCashDeposit, reserveRatio(probe.reserveRatioPct))

\* C21: at every step of the Banks walkthrough, for every reserve ratio and
\* initial deposit of the sliders, the bank's asset entries sum to at least
\* its liability entries.
C21_AssetsCover ==
  OnBanks => SideTotal(BankNow, "Assets") >= SideTotal(BankNow, "Liabilities")

RECURSIVE AmountOf(_, _)
\* the amount the entries show for the account
AmountOf(entries, account) ==
  IF entries = <<>> THEN 0
  ELSE (IF Head(entries).account = account THEN Head(entries).amount ELSE 0)
       + AmountOf(Tail(entries), account)

\* the Policy page is shown
OnPolicy == probe.kind = "pages" /\ probe.page = "policy"
\* Bank A's reserves and customer deposits at a step of the Policy page
BankReserves(step) == AmountOf(tiles(step).bank, "Reserves at CB")
BankDeposits(step) == AmountOf(tiles(step).bank, "Deposits (Customers)")

\* C24: on the Policy page the step to the OMO purchase raises Bank A's
\* reserves by 100 and the step to the OMO sale lowers them by 100, customer
\* deposits unchanged in both; the step to QE raises deposits and reserves
\* by 100 each; at every step the central bank's 'Bank Reserves' equals
\* Bank A's 'Reserves at CB'.
C24_PolicyLedgers ==
  [][(OnPolicy /\ probe'.page = "policy")
       => /\ AmountOf(tiles(probe'.step).cb, "Bank Reserves") = BankReserves(probe'.step)
          /\ (probe.step = 0 /\ probe'.step = 1)
               => /\ BankReserves(1) = BankReserves(0) + 100
                  /\ BankDeposits(1) = BankDeposits(0)
          /\ (probe.step = 1 /\ probe'.step = 2)
               => /\ BankReserves(2) = BankReserves(1) - 100
                  /\ BankDeposits(2) = BankDeposits(1)
          /\ (probe.step = 2 /\ probe'.step = 3)
               => /\ BankReserves(3) = BankReserves(2) + 100
                  /\ BankDeposits(3) = BankDeposits(2) + 100]_vars

\* the QE step is shown, with reserves and deposits of 200
C24_Witness ==
  /\ OnPolicy
  /\ probe.step = 3
  /\ probe.op = "next"
  /\ BankReserves(3) = 200
  /\ BankDeposits(3) = 200

\* C28: in both walkthroughs the step stays within 0..3, where the page's
\* ledgers and tiles are defined; Prev at step 0 and Next at step 3 leave it
\* unchanged, and otherwise they change it by exactly one.
C28_StepperBounds ==
  [][probe.kind = "pages"
       => /\ probe'.step \in 0..3
          /\ probe'.page = "policy" => (probe'.step + 1) \in DOMAIN stepEntries
          /\ probe'.op = "prev"
               => probe'.step = (IF probe.step = 0 THEN 0 ELSE probe.step - 1)
          /\ probe'.op = "next"
               => probe'.step = (IF probe.step = 3 THEN 3 ELSE probe.step + 1)]_vars

\* Prev has been pressed on the Banks page, which shows step 0
C28_Witness ==
  /\ OnBanks
  /\ probe.step = 0
  /\ probe.op = "prev"
  /\ probe.reserveRatioPct = 50

\* an agent has accepted a bead in a test of the log
Accepted(log) == \E n \in 1..Len(log) : log[n].aTakes \/ log[n].bTakes

\* the number of draws under which a tick of the agents, entered with the
\* bead score at the given value, sees a bead accepted
AcceptChance(agents, beadScore) ==
  Cardinality({d \in Draws : Accepted(BarterTick(agents, beadScore, d).log)})

\* C23: once beads have been accepted (the bead score is above 0), a bead on
\* offer is accepted with a higher chance than it was before any acceptance.
C23_SelfReinforcing ==
  (/\ probe.kind = "barter"
   /\ probe.beadScore > 0
   /\ AcceptChance(probe.agents, 0) > 0
   /\ AcceptChance(probe.agents, 0) < Cardinality(Draws))
    => AcceptChance(probe.agents, probe.beadScore) > AcceptChance(probe.agents, 0)

\* C27: a frame of the barter scene keeps the number of agents, the number
\* of holders of each good and the displayed bead share, and every pair test
\* leaves the two inventories as they were or exchanged.
C27_GoodsConserved ==
  [][(probe.kind = "barter" /\ probe'.kind = "barter")
       => /\ Len(probe'.agents) = Len(probe.agents)
          /\ \A g \in Goods : Holders(probe'.agents, g) = Holders(probe.agents, g)
          /\ beadShare(probe'.agents) = beadShare(probe.agents)
          /\ \A n \in 1..Len(probe'.log) :
               \/ /\ probe'.log[n].a2.inv = probe'.log[n].a.inv
                  /\ probe'.log[n].b2.inv = probe'.log[n].b.inv
               \/ /\ probe'.log[n].a2.inv = probe'.log[n].b.inv
                  /\ probe'.log[n].b2.inv = probe'.log[n].a.inv]_vars

\* a frame in which a bead changed hands and a direct barter took place,
\* with a bead share strictly between 0 and 100
C27_Witness ==
  /\ \E e \in BarterLog : (e.aTakes # e.bTakes) /\ e.a2.inv # e.a.inv
  /\ \E e \in BarterLog : DoubleCoincidence(e) /\ Near(e) /\ e.a2.inv # e.a.inv
  /\ beadShare(probe.agents) > 0
  /\ beadShare(probe.agents) < 100

\* how far from the initial radius "near" reaches: a quarter of a unit
NearTol == Scale \div 4

\* the baseline of the calibration: N = 400 and a mean square speed of 3 T
\* at T = 300
AtBaseline ==
  /\ probe.kind = "radius"
  /\ probe.done
  /\ probe.count = 400
  /\ probe.temperature = DefaultTemperature * Scale
  /\ probe.mean = 3 * probe.temperature

\* C25: at the baseline the target radius is near the initial radius 1.4,
\* and a larger particle count or a larger mean square speed gives a larger
\* target radius.
C25_Calibration ==
  AtBaseline
    => /\ Abs(probe.r - DefaultRadius) <= NearTol
       /\ (probe.count2 > probe.count /\ probe.mean2 = probe.mean) => probe.r2 > probe.r
       /\ (probe.count2 = probe.count /\ IsFinite(probe.mean2) /\ probe.mean2 > probe.mean)
            => probe.r2 > probe.r

\* the rows of the table simulateFractional returned
Rows == IF probe.kind = "fractional" /\ probe.done THEN probe.steps ELSE <<>>

\* C26: the first row's deposit is the initial deposit, each later row's
\* deposit is the previous row's loan, reserve + loan = deposit to the cent
\* in every row, and the table has 1 to 12 rows: it ends with the first row
\* whose loan is below 0.01, or with the 12th row.
C26_Rounds ==
  (probe.kind = "fractional" /\ probe.done)
    => /\ Len(Rows) >= 1
       /\ Len(Rows) <= maxSteps
       /\ Rows[1].deposit = probe.initial
       /\ \A n \in 2..Len(Rows) : Rows[n].deposit = Rows[n - 1].loan
       /\ \A n \in 1..Len(Rows) :
            /\ Abs(fSub(fAdd(Rows[n].reserve, Rows[n].loan), Rows[n].deposit)) < cent
            /\ Rows[n].depositor = n
       /\ \A n \in 1..(Len(Rows) - 1) : Rows[n].loan >= cent
       /\ Len(Rows) = maxSteps \/ Rows[Len(Rows)].loan < cent

\* a table that ended early with a loan below a cent after several rounds,
\* one of whose reserves was a tie rounded up
C26_Witness ==
  /\ Len(Rows) > 2
  /\ Len(Rows) < maxSteps
  /\ Rows[Len(Rows)].loan < cent
  /\ \E n \in 1..Len(Rows) :
       /\ fMul(Rows[n].deposit, probe.rr) % cent = cent \div 2
       /\ Rows[n].reserve > fMul(Rows[n].deposit, probe.rr)

\* C29: once Reset's deferred callback has run and none is pending, the
\* store's particle count is the count the user chose last, and the live
\* particle collection of the shown page has that many members.
C29_ResetNeutral ==
  (/\ probe.kind = "reset"
   /\ lastOp.op = "timeout"
   /\ probe.pending = <<>>)
    => /\ store.particles = probe.chosen
       /\ phase = "mounted" => Len(st.parts) * Scale = probe.chosen

\* C30: every field of the store holds the value last written to it (its
\* initial value while it was never written), whatever the order of user
\* changes and radius write-backs; the store starts from particles 400,
\* mass 1, temperature 300, radius 1.4, gravity off, not paused.
C30_NoLostUpdate ==
  probe.kind = "store"
    => /\ probe.ui = probe.last
       /\ probe.ui.balloon.mass = Scale
       /\ probe.op = "init"
            => probe.ui.balloon = [particles |-> 400 * Scale, mass |-> Scale,
                                   temperature |-> 300 * Scale, radius |-> 14000,
                                   gravity |-> FALSE, paused |-> FALSE]

\* a radius write-back after the user changed particles, temperature,
\* gravity and pause: all four changes are still in the store
C30_Witness ==
  /\ probe.kind = "store"
  /\ probe.op = "sync"
  /\ probe.ui.balloon.radius = maxR
  /\ probe.ui.balloon.particles = 4000 * Scale
  /\ probe.ui.balloon.temperature = 50 * Scale
  /\ probe.ui.balloon.gravity
  /\ probe.ui.balloon.paused
  /\ ~probe.ui.darkMode

=============================================================================
